---- MODULE Spec2Model ----
(***************************************************************************)
(* Model of the Healthvitals backend: the response parser of               *)
(* backend/utils.py (parse_gemini_response and its helpers) and the        *)
(* analyze-symptoms handler of backend/app.py.                             *)
(*                                                                         *)
(* Text is modelled as TLA+ strings, one character per position, and every *)
(* regular expression of the source is an operator that computes what the  *)
(* expression matches on such a string.                                    *)
(***************************************************************************)
EXTENDS Integers, Sequences, FiniteSets, TLC

VARIABLES
    \* one call of extract_list_items
    list_text, list_items, list_pc,
    \* one call of ensure_comprehensive_analysis
    partial, ensured, ens_pc,
    \* one call of parse_gemini_response: the response, the position in the
    \* function body, its locals sections and result, the exception on its
    \* way to the except clause, and how the call ended
    response_text, pc, sections, result, exc, outcome,
    \* what the response was put together from (not read by the program)
    doc,
    \* one request to /api/analyze-symptoms: the request, the position in the
    \* chain of decorators and handler, what the generator call gave, and
    \* the HTTP response
    request, handler_pc, generated, response,
    \* one call of clean_text
    clean_arg, cleaned, clean_pc,
    \* two calls of parse_gemini_response under way at once, each with its
    \* own locals, and the number of records written to the log they share
    calls, log_records,
    \* RateLimiter.requests of the one rate_limiter object, the time
    \* time.time() gives, and the calls of is_rate_limited: the address, the
    \* position in the function body, its local current_time and what it
    \* returned
    requests, clock, rate_calls,
    \* the dictionary anonymous_quick_analysis_tracker of app.py and the requests
    \* to /api/quick-analyze under way: the address, the user id of the token
    \* (None for an anonymous request), the position in the handler and its
    \* local is_first_request
    anonymous_quick_analysis_tracker, quick_calls,
    \* one call of analyze_medical_reports_with_gemini (app.py): the position in
    \* the function body, the API key of the process, its local retry_count,
    \* what each call of the generator gave, and the record returned
    report_pc, api_key, retry_count, attempts, report_analysis,
    \* the module variable _jwks_cache of auth.py (<<>> for None), whether the
    \* key endpoint answers, the number of requests sent to it, and the
    \* requests that went through require_auth with the status each got
    _jwks_cache, jwks_endpoint, jwks_fetches, auth_log

listVars == <<list_text, list_items, list_pc>>

ensureVars == <<partial, ensured, ens_pc>>

parseVars == <<response_text, pc, sections, result, exc, outcome, doc>>

handlerVars == <<request, handler_pc, generated, response>>

cleanVars == <<clean_arg, cleaned, clean_pc>>

threadVars == <<calls, log_records>>

\* the state of the services around the parser: the rate limiter, the
\* tracker of anonymous use, the report analysis and the key cache
serviceVars == <<requests, clock, rate_calls, anonymous_quick_analysis_tracker, quick_calls, report_pc, api_key, retry_count, attempts, report_analysis, _jwks_cache, jwks_endpoint, jwks_fetches, auth_log>>

vars == <<list_text, list_items, list_pc, partial, ensured, ens_pc, response_text, pc, sections, result, exc, outcome, doc, request, handler_pc, generated, response, clean_arg, cleaned, clean_pc, calls, log_records, requests, clock, rate_calls, anonymous_quick_analysis_tracker, quick_calls, report_pc, api_key, retry_count, attempts, report_analysis, _jwks_cache, jwks_endpoint, jwks_fetches, auth_log>>

(***************************************************************************)
(* Characters and character classes of Python's re module, restricted to   *)
(* the alphabet the inputs are drawn from.                                 *)
(***************************************************************************)
\* the characters at positions a..b of s, the positions outside s left out
\* (a Python slice s[a-1:b])
Sub(s, a, b) == SubSeq(s, IF a < 1 THEN 1 ELSE a, IF b > Len(s) THEN Len(s) ELSE b)

\* the character at position i, the empty string outside the text
Ch(s, i) == IF 1 <= i /\ i <= Len(s) THEN Sub(s, i, i) ELSE ""

Whitespace == {" ", "\n", "\t", "\r"}

Digits == {"0", "1", "2", "3", "4", "5", "6", "7", "8", "9"}

UpperLetters ==
    {"A", "B", "C", "D", "E", "F", "G", "H", "I", "J", "K", "L", "M",
     "N", "O", "P", "Q", "R", "S", "T", "U", "V", "W", "X", "Y", "Z"}

LowerLetters ==
    {"a", "b", "c", "d", "e", "f", "g", "h", "i", "j", "k", "l", "m",
     "n", "o", "p", "q", "r", "s", "t", "u", "v", "w", "x", "y", "z"}

\* \w of the re module
WordChars == UpperLetters \cup LowerLetters \cup Digits \cup {"_"}

\* the least element of a set of positions (0 for the empty set)
MinOf(S) == IF S = {} THEN 0 ELSE CHOOSE x \in S : \A y \in S : x <= y

\* the greatest element of a set of positions (0 for the empty set)
MaxOf(S) == -MinOf({-x : x \in S})

\* the value of a function with one argument in its domain: With([x \in {e} |-> b])
\* is b with x standing for e, e evaluated once
With(f) == f[CHOOSE only \in DOMAIN f : TRUE]

\* ''.join(q), by halves
Join(q) ==
    LET RECURSIVE JoinRange(_, _)
        JoinRange(lo, hi) ==
            IF lo > hi THEN ""
            ELSE IF lo = hi THEN q[lo]
            ELSE JoinRange(lo, (lo + hi) \div 2) \o JoinRange((lo + hi) \div 2 + 1, hi)
    IN  JoinRange(1, Len(q))

\* the letters str.upper() changes
UpperOf ==
    [c \in LowerLetters |->
        CASE c = "a" -> "A" [] c = "b" -> "B" [] c = "c" -> "C" [] c = "d" -> "D"
          [] c = "e" -> "E" [] c = "f" -> "F" [] c = "g" -> "G" [] c = "h" -> "H"
          [] c = "i" -> "I" [] c = "j" -> "J" [] c = "k" -> "K" [] c = "l" -> "L"
          [] c = "m" -> "M" [] c = "n" -> "N" [] c = "o" -> "O" [] c = "p" -> "P"
          [] c = "q" -> "Q" [] c = "r" -> "R" [] c = "s" -> "S" [] c = "t" -> "T"
          [] c = "u" -> "U" [] c = "v" -> "V" [] c = "w" -> "W" [] c = "x" -> "X"
          [] c = "y" -> "Y" [] c = "z" -> "Z"]

\* str.upper()
Upper(s) ==
    Join([i \in 1..Len(s) |->
            IF Ch(s, i) \in LowerLetters THEN UpperOf[Ch(s, i)] ELSE Ch(s, i)])

\* the letters str.lower() changes
LowerOf ==
    [c \in UpperLetters |->
        CASE c = "A" -> "a" [] c = "B" -> "b" [] c = "C" -> "c" [] c = "D" -> "d"
          [] c = "E" -> "e" [] c = "F" -> "f" [] c = "G" -> "g" [] c = "H" -> "h"
          [] c = "I" -> "i" [] c = "J" -> "j" [] c = "K" -> "k" [] c = "L" -> "l"
          [] c = "M" -> "m" [] c = "N" -> "n" [] c = "O" -> "o" [] c = "P" -> "p"
          [] c = "Q" -> "q" [] c = "R" -> "r" [] c = "S" -> "s" [] c = "T" -> "t"
          [] c = "U" -> "u" [] c = "V" -> "v" [] c = "W" -> "w" [] c = "X" -> "x"
          [] c = "Y" -> "y" [] c = "Z" -> "z"]

\* str.lower()
Lower(s) ==
    Join([i \in 1..Len(s) |->
            IF Ch(s, i) \in UpperLetters THEN LowerOf[Ch(s, i)] ELSE Ch(s, i)])

RECURSIVE SkipSpaces(_, _)
\* the position a greedy \s* started at i stops at
SkipSpaces(s, i) ==
    IF i <= Len(s) /\ Ch(s, i) \in Whitespace THEN SkipSpaces(s, i + 1) ELSE i

RECURSIVE SkipDigits(_, _)
\* the position a greedy \d* started at i stops at
SkipDigits(s, i) ==
    IF i <= Len(s) /\ Ch(s, i) \in Digits THEN SkipDigits(s, i + 1) ELSE i

\* the position a greedy [^\n]* started at i stops at
LineEnd(s, i) ==
    LET S == {j \in i..Len(s) : Ch(s, j) = "\n"}
    IN  IF S = {} THEN Len(s) + 1 ELSE MinOf(S)

\* a strip() that leaves the text as it is
Strip_none(s) == s

\* str.strip()
Strip(s) ==
    LET S == {j \in 1..Len(s) : Ch(s, j) \notin Whitespace}
    IN  IF S = {} THEN "" ELSE Sub(s, MinOf(S), MaxOf(S))

\* the literal lit stands at position i of s
At(s, i, lit) == i >= 1 /\ i + Len(lit) - 1 <= Len(s) /\ Sub(s, i, i + Len(lit) - 1) = lit

\* the same comparison with letter case regarded
AtIC_exact(s, i, lit) == At(s, i, lit)

\* the same under re.IGNORECASE: character by character, letters compared
\* in lower case
AtIC(s, i, lit) ==
    /\ i >= 1 /\ i + Len(lit) - 1 <= Len(s)
    /\ \A k \in 1..Len(lit) :
          (IF Ch(s, i + k - 1) \in UpperLetters THEN LowerOf[Ch(s, i + k - 1)]
           ELSE Ch(s, i + k - 1))
          = (IF Ch(lit, k) \in UpperLetters THEN LowerOf[Ch(lit, k)] ELSE Ch(lit, k))

\* str.find(lit, i): first position >= i where lit stands, 0 when none
Find(s, lit, i) ==
    LET S == {j \in i..(Len(s) - Len(lit) + 1) : At(s, j, lit)}
    IN  IF S = {} THEN 0 ELSE MinOf(S)

\* the same under re.IGNORECASE
FindIC(s, lit, i) ==
    With([S \in {{j \in i..(Len(s) - Len(lit) + 1) : AtIC(s, j, lit)}} |->
        IF S = {} THEN 0 ELSE MinOf(S)])

\* clean_text with its two statements in the other order: the whitespace
\* collapsed and trimmed first, the asterisks removed after
clean_text_stars_last(text) ==
    With([u \in {Join([i \in 1..Len(text) |->
                        IF Ch(text, i) \notin Whitespace THEN Ch(text, i)
                        ELSE IF i > 1 /\ Ch(text, i - 1) \in Whitespace THEN ""
                        ELSE " "])} |->
    With([v \in {Strip(u)} |->
        Join([i \in 1..Len(v) |-> IF Ch(v, i) = "*" THEN "" ELSE Ch(v, i)])])])

\* clean_text (utils.py 53-59)
clean_text(text) ==
    LET \* text.replace('*', '')
        t == Join([i \in 1..Len(text) |-> IF Ch(text, i) = "*" THEN "" ELSE Ch(text, i)])
    IN
    \* re.sub(r'\s+', ' ', text): each run of whitespace becomes one space
    With([u \in {Join([i \in 1..Len(t) |->
                        IF Ch(t, i) \notin Whitespace THEN Ch(t, i)
                        ELSE IF i > 1 /\ Ch(t, i - 1) \in Whitespace THEN ""
                        ELSE " "])} |->
        Strip(u)])

(***************************************************************************)
(* extract_list_items (utils.py 689-747)                                   *)
(***************************************************************************)
ShortListLines == 8

LongLineChars == 100

\* where a match of (?:^|\n) tried at p leaves the cursor, 0 when it fails
LineStartAt(s, p) ==
    IF p = 1 THEN 1
    ELSE IF p <= Len(s) /\ Ch(s, p) = "\n" THEN p + 1
    ELSE 0

RECURSIVE NumberedItems(_, _)
\* [match.group(1).strip() for match in re.finditer(numbered_regex, text)]
\* with numbered_regex = (?:^|\n)\s*\d+\.\s*([^\n]+), the scan resumed at
\* position p
NumberedItems(s, p) ==
    LET \* the first position >= p where (?:^|\n) can match, 0 when none
        c == IF p = 1 THEN 1 ELSE Find(s, "\n", p)
        q == LineStartAt(s, c)
        a == SkipSpaces(s, q)
        d == SkipDigits(s, a)
        w == SkipSpaces(s, d + 1)
        \* when \s* ran to the end of the text it gives characters back
        \* until [^\n]+ finds one that is not a newline
        back == {j \in (d + 1)..Len(s) : Ch(s, j) # "\n"}
    IN
    With([from \in {IF w <= Len(s) THEN w ELSE IF back # {} THEN MaxOf(back) ELSE 0} |->
        IF p > Len(s) \/ c = 0 THEN <<>>
        ELSE IF q = 0 \/ d = a \/ ~At(s, d, ".") \/ from = 0
             THEN NumberedItems(s, c + 1)
        ELSE <<Strip(Sub(s, from, LineEnd(s, from) - 1))>>
                \o NumberedItems(s, LineEnd(s, from))])

RECURSIVE DashItems(_, _, _)
\* [match.group(1).strip() for match in re.finditer(dash_regex, text)] with
\* dash_regex = (?:^|\n)\s*[B]\s*(.*?)(?=(?:\n\s*[B])|$) under re.DOTALL, B
\* the bullet class (also bullet_pattern of extract_field_from_block)
DashItems(s, p, B) ==
    LET c == IF p = 1 THEN 1 ELSE Find(s, "\n", p)
        q == LineStartAt(s, c)
        a == SkipSpaces(s, q)
        b == SkipSpaces(s, a + 1)
        \* the lookahead (?=(?:\n\s*[B])|$) at position e
        Stop(e) ==
            \/ e = Len(s) + 1
            \/ e = Len(s) /\ Ch(s, e) = "\n"
            \/ e <= Len(s) /\ Ch(s, e) = "\n" /\ Ch(s, SkipSpaces(s, e + 1)) \in B
    IN
    With([e \in {MinOf({x \in b..(Len(s) + 1) : Stop(x)})} |->
        IF p > Len(s) \/ c = 0 THEN <<>>
        ELSE IF q = 0 \/ a > Len(s) \/ Ch(s, a) \notin B THEN DashItems(s, c + 1, B)
        ELSE <<Strip(Sub(s, b, e - 1))>> \o DashItems(s, e, B)])

NonBlank(line) == Strip(line) # ""

\* [line.strip() for line in text.split('\n') if line.strip()]
StrippedLines(s) ==
    LET \* text.split('\n'): line k runs from after newline k-1 up to newline k
        starts == {1} \cup {j + 1 : j \in {k \in 1..Len(s) : Ch(s, k) = "\n"}}
        Nth(k) == CHOOSE j \in starts : Cardinality({x \in starts : x < j}) = k - 1
        lines == [k \in 1..Cardinality(starts) |->
                    Sub(s, Nth(k), LineEnd(s, Nth(k)) - 1)]
    IN
    With([kept \in {SelectSeq(lines, NonBlank)} |->
        [i \in 1..Len(kept) |-> Strip(kept[i])]])

extract_list_items(text) ==
    LET Bullets == {"-", "*"}
        \* the items of the first strategy that finds any, before cleaning
        \* (utils.py 697-741)
        RawListItems(t) ==
            With([numbered_items \in {NumberedItems(t, 1)} |->
            With([dash_items \in {DashItems(t, 1, Bullets)} |->
            With([lines \in {StrippedLines(t)} |->
            LET \* str.isupper(): some cased character, and no lower-case one
                IsUpper(l) ==
                    /\ \E i \in 1..Len(l) : Ch(l, i) \in UpperLetters
                    /\ \A i \in 1..Len(l) : Ch(l, i) \notin LowerLetters
                \* len(line.split()): the number of maximal runs of non-whitespace
                Words(l) ==
                    Cardinality({i \in 1..Len(l) :
                        /\ Ch(l, i) \notin Whitespace
                        /\ (i = 1 \/ Ch(l, i - 1) \in Whitespace)})
                Kept(l) == ~IsUpper(l) /\ Ch(l, Len(l)) # ":" /\ Words(l) > 1
            IN  IF numbered_items # <<>> THEN numbered_items
                ELSE IF dash_items # <<>> THEN dash_items
                ELSE IF \/ Len(lines) < ShortListLines
                        \/ \E i \in 1..Len(lines) : Len(lines[i]) > LongLineChars
                     THEN lines
                ELSE SelectSeq(lines, Kept)])])])
        \* cleaned_items = [clean_text(item) for item in items if item.strip()]
        CleanItems(items) ==
            LET kept == SelectSeq(items, NonBlank)
            IN  [i \in 1..Len(kept) |-> clean_text(kept[i])]
    IN  IF Strip(text) = "" THEN <<>> ELSE CleanItems(RawListItems(text))

(***************************************************************************)
(* Regular-expression idioms shared by the patterns of                     *)
(* parse_gemini_response.                                                  *)
(***************************************************************************)
\* $ without re.MULTILINE: the end of the text, or just before a final newline
DollarAt(s, e) == e = Len(s) + 1 \/ (e = Len(s) /\ Ch(s, e) = "\n")

\* where a lazy (.*?) under re.DOTALL that starts at b stops: the first
\* position from b on in stops, the positions where the lookahead holds
\* (0 when there is none)
LazyUntil(s, b, stops) ==
    LET S == {e \in b..(Len(s) + 1) : e \in stops}
    IN  IF S = {} THEN 0 ELSE MinOf(S)

\* int(digits); Python refuses a digit string longer than the interpreter's
\* limit with ValueError (sys.set_int_max_str_digits), scaled down here
IntMaxStrDigits == 3

RECURSIVE IntOf(_)
IntOf(d) ==
    LET last == Ch(d, Len(d))
        value == CHOOSE v \in 0..9 : ToString(v) = last
    IN  IF d = "" THEN 0 ELSE 10 * IntOf(Sub(d, 1, Len(d) - 1)) + value

\* int(d) raises ValueError
IntRaises(d) == Len(d) > IntMaxStrDigits

(***************************************************************************)
(* Section Splitter (utils.py 132-140)                                     *)
(***************************************************************************)
\* the class [A-Z\s\'] of section_pattern
HeadingChars == UpperLetters \cup Whitespace \cup {"'"}

RECURSIVE HeadingRunEnd(_, _)
\* the position the greedy [A-Z\s\']+ started at i stops at
HeadingRunEnd(s, i) ==
    IF i <= Len(s) /\ Ch(s, i) \in HeadingChars THEN HeadingRunEnd(s, i + 1) ELSE i

RECURSIVE SplitSections(_, _, _)
\* the loop over re.finditer(section_pattern, response_text) with
\* section_pattern = ([A-Z\s\']+):[\r\n]+([\s\S]+?)(?=(?:[A-Z\s\']+:)|$),
\* the scan resumed at position p with the mapping secs built so far
SplitSections(s, p, secs) ==
    LET \* the lookahead (?:[A-Z\s\']+:) at position e
        HeadingAhead(e) == Ch(s, e) \in HeadingChars /\ Ch(s, HeadingRunEnd(s, e)) = ":"
        \* the first position >= p where the pattern can start: a heading
        \* character whose run is closed by a colon
        starts == {j \in p..Len(s) : HeadingAhead(j)}
        c == MinOf(starts)
    IN
    With([r \in {HeadingRunEnd(s, c)} |->
    LET \* the colon stands here
        \* the position the greedy [\r\n]+ stops at
        rest == {j \in (r + 1)..Len(s) : Ch(s, j) \notin {"\r", "\n"}}
        n == IF rest = {} THEN Len(s) + 1 ELSE MinOf(rest)
        \* [\r\n]+ that ran to the end of the text gives one character back
        b == IF n > Len(s) THEN Len(s) ELSE n
        Stop(e) == HeadingAhead(e) \/ DollarAt(s, e)
    IN
    With([e \in {LazyUntil(s, b + 1, {stop_e \in (b + 1)..(Len(s) + 1) : Stop(stop_e)})} |->
    With([name \in {Upper(Strip(Sub(s, c, r - 1)))} |->
    LET content == Strip(Sub(s, b, e - 1))
    IN
    \* sections[section_name] = section_content: a key keeps the place
    \* of its first insertion, its value is the last one stored
    With([put \in {IF \E i \in 1..Len(secs) : secs[i].name = name
                   THEN [i \in 1..Len(secs) |->
                           IF secs[i].name = name THEN [name |-> name, content |-> content]
                           ELSE secs[i]]
                   ELSE Append(secs, [name |-> name, content |-> content])} |->
        IF p > Len(s) \/ starts = {} THEN secs
        \* no newline after the colon, or nothing after the newlines: no
        \* match anywhere inside this run of heading characters
        ELSE IF n = r + 1 \/ b <= r + 1 THEN SplitSections(s, r + 1, secs)
        ELSE SplitSections(s, e, put)])])])])

HasSection(secs, name) == \E i \in 1..Len(secs) : secs[i].name = name

\* sections[name] ("" stands for a section that is not there)
SectionOf(secs, name) ==
    IF HasSection(secs, name)
    THEN secs[CHOOSE j \in 1..Len(secs) : secs[j].name = name].content
    ELSE ""

(***************************************************************************)
(* Entity Block Extractor: splitting a section into numbered blocks        *)
(***************************************************************************)
\* the ascending sequence of a finite set of positions
SortedSeq(S) ==
    [k \in 1..Cardinality(S) |->
        CHOOSE x \in S : Cardinality({y \in S : y < x}) = k - 1]

\* \n\s*\d+\. tried at position p: the end of the match, 0 when it fails
BlockMarkEnd(s, p) ==
    LET a == SkipSpaces(s, p + 1)
        d == SkipDigits(s, a)
    IN  IF Ch(s, p) = "\n" /\ d > a /\ Ch(s, d) = "." THEN d + 1 ELSE 0

\* the blocks the loops over re.split(r'\n\s*\d+\.', s) work on: the first
\* block is removed when it is blank ("Remove first empty block if
\* present"), and blank blocks are skipped (`if not block.strip(): continue`)
LiveBlocks(s) ==
    LET \* the split cuts at a newline that opens the pattern and is not
        \* inside the whitespace of an earlier match
        marks == SortedSeq({p \in 1..Len(s) :
                    /\ BlockMarkEnd(s, p) # 0
                    /\ ~\E j \in 1..(p - 1) :
                          /\ Ch(s, j) = "\n"
                          /\ \A k \in j..(p - 1) : Ch(s, k) \in Whitespace})
        n == Len(marks)
        From(k) == IF k = 1 THEN 1 ELSE BlockMarkEnd(s, marks[k - 1])
        To(k) == IF k = n + 1 THEN Len(s) ELSE marks[k] - 1
    IN
    With([blocks \in {[k \in 1..(n + 1) |-> Sub(s, From(k), To(k))]} |->
    LET rest == IF Strip(blocks[1]) = "" THEN Tail(blocks) ELSE blocks
    IN  SelectSeq(rest, NonBlank)])

(***************************************************************************)
(* Conditions, tier 1 (utils.py 146-261)                                   *)
(***************************************************************************)

\* the position a greedy \w* started at i stops at
RECURSIVE SkipWord(_, _)
SkipWord(s, i) ==
    IF i <= Len(s) /\ Ch(s, i) \in WordChars THEN SkipWord(s, i + 1) ELSE i

\* the sub-list of one condition (utils.py 209-259), read from the whole
\* response with re.DOTALL | re.IGNORECASE:
\*   (?:NAME|name)\s*<first>\s*<second>(.*?)(?=<stops>|RECOMMENDATION:|$)
\* with RECOMMENDED ACTIONS: and the stops NAME\s*PREVENTIVE,
\* \d+\.\s*\w+\s*\(Probability for the recommended actions (preventive
\* FALSE), and PREVENTIVE MEASURES: and the stop \d+\.\s*\w+\s*\(Probability
\* for the preventive measures.  The alternative patterns of lines 224 and
\* 250 open with the same prefix and the first pattern matches wherever the
\* prefix does (its lazy group can run to the end), so they never apply.
ConditionSubList(s, name, preventive) ==
    LET first == IF preventive THEN "PREVENTIVE" ELSE "RECOMMENDED"
        second == IF preventive THEN "MEASURES:" ELSE "ACTIONS:"
        \* the prefix tried at a: the position after it, 0 when it fails
        PrefixEnd(a) ==
            LET x == SkipSpaces(s, a + Len(name))
                y == SkipSpaces(s, x + Len(first))
            IN  IF AtIC(s, a, name) /\ AtIC(s, x, first) /\ AtIC(s, y, second)
                THEN y + Len(second) ELSE 0
    IN
    With([A \in {{a \in 1..(Len(s) + 1) : PrefixEnd(a) # 0}} |->
    With([g \in {PrefixEnd(MinOf(A))} |->
    LET \* the lookahead \d+\.\s*\w+\s*\(Probability at e
        NextCondition(e) ==
            /\ Ch(s, e) \in Digits
            /\ LET d == SkipDigits(s, e)
                   w == SkipSpaces(s, d + 1)
               IN  /\ Ch(s, d) = "."
                   /\ SkipWord(s, w) > w
                   /\ AtIC(s, SkipSpaces(s, SkipWord(s, w)), "(Probability")
        Stop(e) ==
            \/ /\ ~preventive
               /\ AtIC(s, e, name)
               /\ AtIC(s, SkipSpaces(s, e + Len(name)), "PREVENTIVE")
            \/ NextCondition(e)
            \/ AtIC(s, e, "RECOMMENDATION:")
            \/ DollarAt(s, e)
    IN
    With([found \in {extract_list_items(Strip(Sub(s, g, LazyUntil(s, g, {stop_e \in g..(Len(s) + 1) : Stop(stop_e)}) - 1)))} |->
    LET \* [clean_text(x) for x in found if x.strip()]
        kept == SelectSeq(found, NonBlank)
    IN  IF A = {} THEN <<>> ELSE [i \in 1..Len(kept) |-> clean_text(kept[i])]])])])

(***************************************************************************)
(* Conditions, tier 2 (utils.py 263-298)                                   *)
(***************************************************************************)
\* the optional (?:Probability:?\s*)? after the "(" at position r: where the
\* digits have to start
AfterProbabilityWord(s, r, ic) ==
    LET word == "Probability"
    IN
    With([here \in {IF ic THEN AtIC(s, r + 1, word) ELSE At(s, r + 1, word)} |->
    LET x == r + 1 + Len(word)
    IN  IF here THEN SkipSpaces(s, IF Ch(s, x) = ":" THEN x + 1 ELSE x)
        ELSE r + 1])

\* the position a greedy run of characters outside the set C, started at i,
\* stops at
RunEndOutside(s, i, C) ==
    LET S == {j \in i..Len(s) : Ch(s, j) \in C}
    IN  IF S = {} THEN Len(s) + 1 ELSE MinOf(S)

\* condition_pattern of the fallback =
\*   (?:^|\n)(?:\d+\.\s*)([^(\r\n]+)(?:\((?:Probability:?\s*)?(\d+)%\))
\*   ([^:\r\n]*):?(.*?)(?=(?:\n\s*\d+\.)|(?:\n\s*[A-Z][A-Z\s\']*\s*RECOMMENDED\s*ACTIONS)|$)
\* with re.DOTALL, the anchor (?:^|\n) already matched and the digits due
\* at position q
Tier2At(s, q) ==
    LET \* the lookahead \n\s*[A-Z][A-Z\s\']*\s*RECOMMENDED\s*ACTIONS at e
        ActionsHeadingAhead(t, h) ==
            /\ Ch(t, h) = "\n"
            /\ LET f0 == SkipSpaces(t, h + 1)
               IN  /\ Ch(t, f0) \in UpperLetters
                   /\ \E k0 \in (f0 + 1)..HeadingRunEnd(t, f0 + 1) :
                        LET x0 == SkipSpaces(t, k0)
                        IN  /\ At(t, x0, "RECOMMENDED")
                            /\ At(t, SkipSpaces(t, x0 + Len("RECOMMENDED")), "ACTIONS")
        d == SkipDigits(s, q)
        w == SkipSpaces(s, d + 1)
        stops == {"(", "\r", "\n"}
    IN
    \* \s* gives one blank back when the name would otherwise be empty
    With([g \in {IF Ch(s, w) \notin stops /\ w <= Len(s) THEN w
                 ELSE IF Ch(s, w) = "(" /\ w - 1 >= d + 1 /\ Ch(s, w - 1) \notin stops
                      THEN w - 1
                 ELSE 0} |->
    LET r == RunEndOutside(s, g, stops)
    IN
    With([a \in {AfterProbabilityWord(s, r, FALSE)} |->
    LET dd == SkipDigits(s, a)
        u == RunEndOutside(s, dd + 2, {":", "\r", "\n"})
    IN
    With([c \in {IF Ch(s, u) = ":" THEN u + 1 ELSE u} |->
    LET Stop(e) == BlockMarkEnd(s, e) # 0 \/ ActionsHeadingAhead(s, e) \/ DollarAt(s, e)
    IN
    With([e \in {LazyUntil(s, c, {stop_e \in c..(Len(s) + 1) : Stop(stop_e)})} |->
    LET fail == [ok |-> FALSE, name |-> "", digits |-> "", rest |-> "", tail |-> "", end |-> 0]
    IN  IF d = q \/ Ch(s, d) # "." \/ g = 0 THEN fail
        ELSE IF Ch(s, r) # "(" \/ dd = a \/ ~At(s, dd, "%)") THEN fail
        ELSE [ok |-> TRUE,
              name |-> Sub(s, g, r - 1),
              digits |-> Sub(s, a, dd - 1),
              rest |-> Sub(s, dd + 2, u - 1),
              tail |-> Sub(s, c, e - 1),
              end |-> e]])])])])

(***************************************************************************)
(* Conditions, tier 3 (utils.py 300-332)                                   *)
(***************************************************************************)

(***************************************************************************)
(* Section Field Extractor (utils.py 341-418, 479-487, 634-643)            *)
(***************************************************************************)
Contains(s, lit) == Find(s, lit, 1) # 0

(***************************************************************************)
(* Meal recommendations (utils.py 367-398)                                 *)
(***************************************************************************)

(***************************************************************************)
(* Ayurvedic medication (utils.py 420-477)                                 *)
(***************************************************************************)
\* re.match(r'\s*([^\n]+)', block).group(1).strip() for a block that is not
\* blank: its first non-blank line
FirstLine(block) ==
    LET a == SkipSpaces(block, 1)
    IN  Strip(Sub(block, a, LineEnd(block, a) - 1))

\* the lookahead \d+\. at e
NumberDotAt(s, e) ==
    Ch(s, e) \in Digits /\ Ch(s, SkipDigits(s, e)) = "."

(***************************************************************************)
(* Reports required (utils.py 489-632) and extract_field_from_block        *)
(* (utils.py 932-1065)                                                     *)
(***************************************************************************)
FieldMarkers ==
    <<"- Purpose:", "- Benefits:", "- Analysis Details:",
      "- Preparation Required:", "- Recommendation Reason:">>

MinReportFields == 3

RECURSIVE BreakNumbered(_, _)
\* re.sub(r'(\d+\..*?)(?=\s*\d+\.|$)', r'\1\n\n', content), the scan resumed
\* at position p
BreakNumbered(s, p) ==
    LET \* (\d+\..*?)(?=\s*\d+\.|$) tried at position p, without re.DOTALL: the end
        \* of the match, 0 when it fails
        NumberedPieceEnd(t, p0) ==
            LET d == SkipDigits(t, p0)
                le == LineEnd(t, d + 1)
                E == {e \in (d + 1)..le :
                        NumberDotAt(t, SkipSpaces(t, e)) \/ DollarAt(t, e)}
            IN  IF d > p0 /\ Ch(t, d) = "." /\ E # {} THEN MinOf(E) ELSE 0
    IN
    With([P \in {{c \in p..Len(s) : Ch(s, c) \in Digits /\ NumberedPieceEnd(s, c) # 0}} |->
    LET c == MinOf(P)
    IN
    With([e \in {NumberedPieceEnd(s, c)} |->
        IF P = {} THEN Sub(s, p, Len(s))
        ELSE Sub(s, p, e - 1) \o "\n\n" \o BreakNumbered(s, e)])])

\* extract_field_from_block(block, marker + r'\s*').  The first search
\* pattern matches whenever the marker occurs at all (its lazy group can
\* always run to the end), so the two fallback patterns never apply.
extract_field_from_block(block, marker) ==
    LET \* the formatting of a field's content (utils.py 960-987)
        FormatField(content) ==
            LET \* re.search(r'^\s*\d+\.', content, re.MULTILINE)
                AlreadyNumbered(c0) ==
                    \E q \in {1} \cup {j + 1 : j \in {k \in 1..Len(c0) : Ch(c0, k) = "\n"}} :
                        NumberDotAt(c0, SkipSpaces(c0, q))
                \* numbered_content += f"{i}. {line}\n\n" over enumerate(lines, 1)
                NumberLines(lines) ==
                    Join([i \in 1..Len(lines) |-> ToString(i) \o ". " \o lines[i] \o "\n\n"])
                \* [-•] of bullet_pattern; the texts of this model are ASCII, so the
                \* second bullet never occurs in them
                FieldBullets == {"-"}
            IN
            With([bullets \in {IF Contains(content, "-")
                               THEN DashItems(content, 1, FieldBullets) ELSE <<>>} |->
            With([lines \in {IF bullets # <<>> THEN bullets ELSE StrippedLines(content)} |->
                IF AlreadyNumbered(content) THEN Strip(BreakNumbered(content, 1))
                ELSE IF lines # <<>> THEN Strip(NumberLines(lines))
                ELSE content])])
    IN
    With([a \in {FindIC(block, marker, 1)} |->
    LET b == SkipSpaces(block, a + Len(marker))
        Stop(e) == (\E k \in 1..Len(FieldMarkers) : AtIC(block, e, FieldMarkers[k]))
                   \/ DollarAt(block, e)
    IN
    With([e \in {LazyUntil(block, b, {stop_e \in b..(Len(block) + 1) : Stop(stop_e)})} |->
        IF a = 0 THEN "" ELSE FormatField(Strip(Sub(block, b, e - 1)))])])

\* the five fields of a block, by key
ReportFields(block) ==
    LET ReportKeys ==
            <<"purpose", "benefits", "analysisDetails", "preparationRequired",
              "recommendationReason">>
    IN  [k \in {ReportKeys[i] : i \in 1..Len(ReportKeys)} |->
            LET i == CHOOSE j \in 1..Len(ReportKeys) : ReportKeys[j] = k
            IN  extract_field_from_block(block, FieldMarkers[i])]

\* report_item = {k: v for k, v in report_item.items() if v}
ReportItem(name, block) ==
    With([full \in {ReportFields(block) @@ [name |-> name]} |->
        [k \in {x \in DOMAIN full : full[x] # ""} |-> full[k]]])

FirstPassReports(reports_text) ==
    LET \* the first pass keeps a block that has a marker and enough fields
        \* (utils.py 507-569)
        ReportKept(block) ==
            LET \* field_count = sum(1 for field in [...] if field)
                field_count(blk) ==
                    Cardinality({k \in DOMAIN ReportFields(blk) : ReportFields(blk)[k] # ""})
                \* any(marker in block for marker in [...])
                has_markers(blk) == \E k \in 1..Len(FieldMarkers) : Contains(blk, FieldMarkers[k])
            IN  /\ has_markers(block)
                /\ field_count(block) >= MinReportFields
                /\ Cardinality(DOMAIN ReportItem(FirstLine(block), block)) > 1
    IN
    With([kept \in {SelectSeq(LiveBlocks(reports_text), ReportKept)} |->
        [i \in 1..Len(kept) |-> ReportItem(FirstLine(kept[i]), kept[i])]])

RECURSIVE AltNames(_, _)
\* [name.strip() for name in re.findall(report_name_pattern, reports_text)],
\* the scan resumed at position p
AltNames(s, p) ==
    LET \* report_name_pattern = (?:\d+\.\s*)([^\n\-]+) tried at position p: the
        \* span of group 1
        AltNameAt(t, p0) ==
            LET d == SkipDigits(t, p0)
                w == SkipSpaces(t, d + 1)
                stops == {"\n", "-"}
                \* \s* gives blanks back until [^\n\-]+ finds a character to take
                K == {k \in (d + 1)..(w - 1) : Ch(t, k) # "\n"}
            IN
            With([g \in {IF w <= Len(t) /\ Ch(t, w) \notin stops THEN w
                         ELSE IF K # {} THEN MaxOf(K)
                         ELSE 0} |->
                IF d > p0 /\ Ch(t, d) = "." /\ g # 0
                THEN [ok |-> TRUE, from |-> g, end |-> RunEndOutside(t, g, stops)]
                ELSE [ok |-> FALSE, from |-> 0, end |-> 0]])
        P == {c \in p..Len(s) : Ch(s, c) \in Digits /\ AltNameAt(s, c).ok}
    IN
    With([m \in {AltNameAt(s, MinOf(P))} |->
        IF P = {} THEN <<>>
        ELSE <<Strip(Sub(s, m.from, m.end - 1))>> \o AltNames(s, m.end)])

\* the block the alternative pass cuts for a name (utils.py 586-606);
\* found is FALSE when no newline follows the name
AltBlock(text, name) ==
    LET name_index == Find(text, name, 1)
        after == name_index + Len(name)
        next_name_index == Find(text, "\n", after)
        marks == <<"\n1.", "\n2.", "\n3.", "\n4.", "\n5.">>
        hits == {k \in 1..Len(marks) : Find(text, marks[k], after) # 0}
    IN
    With([next_report_index \in {IF hits = {} THEN 0 ELSE Find(text, marks[MinOf(hits)], after)} |->
    LET end_index == IF next_report_index # 0 THEN next_report_index - 1 ELSE Len(text)
    IN  [found |-> next_name_index # 0,
         block |-> Sub(text, name_index, end_index)]])

\* the items the alternative pass appends (utils.py 578-630)
AlternativeReports(reports_text) ==
    LET AltItemOk(pair) ==
            /\ AltBlock(pair.text, pair.name).found
            /\ Cardinality(DOMAIN ReportItem(pair.name, AltBlock(pair.text, pair.name).block)) > 1
    IN
    With([names \in {AltNames(reports_text, 1)} |->
    LET pairs == [i \in 1..Len(names) |-> [text |-> reports_text, name |-> names[i]]]
    IN
    With([kept \in {SelectSeq(pairs, AltItemOk)} |->
        [i \in 1..Len(kept) |->
            ReportItem(kept[i].name, AltBlock(reports_text, kept[i].name).block)]])])

(***************************************************************************)
(* Records.  A Python dict is a function whose DOMAIN is its set of keys.  *)
(***************************************************************************)
\* result[k] = v
Put(r, k, v) == [x \in DOMAIN r \cup {k} |-> IF x = k THEN v ELSE r[x]]

\* result.pop(k, None)
Pop(r, k) == [x \in DOMAIN r \ {k} |-> r[x]]

StringFields == {"recommendation", "urgency"}

ListFields ==
    {"possibleConditions", "followUpActions", "riskFactors", "exercisePlan",
     "diseases", "preventiveMeasures", "medicineRecommendations", "dos", "donts",
     "reportsRequired"}

DictFields == {"mealRecommendations", "ayurvedicMedication", "conditionSpecificData"}

\* the sixteen keys of the record built at utils.py 105-129
AnalysisFields == StringFields \cup ListFields \cup DictFields \cup {"healthScore"}

\* `not v` for the value v of field k: "", [], {} and 0 are falsy
Falsy(k, v) ==
    IF k \in StringFields \cup {"note"} THEN v = ""
    ELSE IF k = "healthScore" THEN v = 0
    ELSE DOMAIN v = {}

\* `k not in result or not result[k]`
Missing(r, k) == k \notin DOMAIN r \/ Falsy(k, r[k])

(***************************************************************************)
(* ensure_comprehensive_analysis (utils.py 790-843)                        *)
(***************************************************************************)

default_lists ==
    [followUpActions |->
        <<"Consult with a healthcare provider", "Monitor your symptoms", "Stay hydrated">>,
     riskFactors |-> <<"Consult a healthcare professional for a full assessment">>,
     exercisePlan |-> <<"Consult your doctor before starting any exercise regimen">>,
     diseases |-> <<"Analysis could not identify specific diseases">>,
     preventiveMeasures |->
        <<"Stay hydrated", "Get adequate rest", "Maintain a balanced diet">>,
     dos |->
        <<"Seek professional medical advice", "Take notes of your symptoms", "Stay hydrated">>,
     donts |->
        <<"Don't self-diagnose", "Don't ignore persistent symptoms",
          "Don't delay seeking medical help if symptoms worsen">>]

DefaultHealthScore == 5

\* ensure_comprehensive_analysis with the tests of lines 813-815 left out:
\* every list default written, whatever the field held
ensure_comprehensive_analysis_overwriting(res) ==
    [k \in DOMAIN res \cup DOMAIN default_lists |->
        IF k \in DOMAIN default_lists THEN default_lists[k] ELSE res[k]]

ensure_comprehensive_analysis(res) ==
    LET DefaultRecommendation ==
            "Please consult a healthcare professional for a thorough diagnosis."
        \* lines 817-832
        EnsureMeals(r) ==
            LET DefaultMealNote == "Consult a healthcare professional for dietary advice."
                DefaultMeal == <<"Consult a nutritionist for personalized meal plans">>
                MealFields == {"breakfast", "lunch", "dinner", "note"}
            IN  IF Missing(r, "mealRecommendations")
                THEN [breakfast |-> DefaultMeal, lunch |-> DefaultMeal, dinner |-> DefaultMeal,
                      note |-> DefaultMealNote]
                ELSE LET m == r["mealRecommendations"]
                     IN  [k \in DOMAIN m \cup MealFields |->
                            IF k \in MealFields /\ Missing(m, k)
                            THEN (IF k = "note" THEN DefaultMealNote ELSE DefaultMeal)
                            ELSE m[k]]
        filled == DOMAIN default_lists
        Fill(k) ==
            IF k = "recommendation" THEN DefaultRecommendation
            ELSE IF k = "urgency" THEN "medium"
            ELSE IF k \in filled THEN default_lists[k]
            ELSE IF k = "mealRecommendations" THEN EnsureMeals(res)
            ELSE IF k = "reportsRequired" THEN <<>>
            ELSE DefaultHealthScore
        touched == {"recommendation", "urgency", "mealRecommendations",
                    "reportsRequired", "healthScore"} \cup filled
    IN  [k \in DOMAIN res \cup touched |->
            IF k \in touched /\ (Missing(res, k) \/ k = "mealRecommendations")
            THEN Fill(k)
            ELSE res[k]]

(***************************************************************************)
(* parse_gemini_response (utils.py 61-687): the records it builds          *)
(***************************************************************************)
\* the record returned for an empty response (utils.py 69-98)
EmptyResponseRecord ==
    [possibleConditions |->
        <<[name |-> "Analysis Failed", probability |-> 100,
           description |-> "The analysis could not be completed due to an error.",
           category |-> "error"]>>,
     recommendation |-> "Please try again or consult a healthcare professional.",
     urgency |-> "medium",
     followUpActions |-> <<"Please try again later">>,
     riskFactors |-> <<"Unable to analyze symptoms">>,
     mealRecommendations |->
        [breakfast |-> <<>>, lunch |-> <<>>, dinner |-> <<>>, note |-> ""],
     exercisePlan |-> <<>>,
     diseases |-> <<>>,
     preventiveMeasures |-> <<>>,
     medicineRecommendations |-> <<>>,
     ayurvedicMedication |->
        [description |-> "", benefits |-> <<>>, recommendations |-> <<>>,
         importance |-> ""],
     dos |-> <<>>,
     donts |-> <<>>,
     conditionSpecificData |-> <<>>,
     reportsRequired |-> <<>>,
     healthScore |-> 0]

\* "Initialize the result dictionary" (utils.py 105-129)
InitialResult ==
    [possibleConditions |-> <<>>,
     recommendation |-> "",
     urgency |-> "medium",
     followUpActions |-> <<>>,
     riskFactors |-> <<>>,
     mealRecommendations |->
        [breakfast |-> <<>>, lunch |-> <<>>, dinner |-> <<>>, note |-> ""],
     exercisePlan |-> <<>>,
     diseases |-> <<>>,
     preventiveMeasures |-> <<>>,
     medicineRecommendations |-> <<>>,
     ayurvedicMedication |-> [recommendations |-> <<>>],
     dos |-> <<>>,
     donts |-> <<>>,
     conditionSpecificData |-> <<>>,
     reportsRequired |-> <<>>,
     healthScore |-> 0]

\* an error record whose description leaves the exception text out
ErrorRecord_silent(msg) ==
    [possibleConditions |->
        <<[name |-> "Error Analyzing Symptoms", probability |-> 100,
           description |-> "There was an error analyzing your symptoms",
           category |-> "error"]>>,
     recommendation |-> "Please try again later or consult a healthcare professional.",
     urgency |-> "medium",
     followUpActions |-> <<"Try again later", "Consult a healthcare professional">>,
     riskFactors |-> <<"Unable to analyze symptoms properly">>,
     mealRecommendations |->
        [breakfast |-> <<>>, lunch |-> <<>>, dinner |-> <<>>, note |-> ""],
     exercisePlan |-> <<>>,
     diseases |-> <<>>,
     preventiveMeasures |-> <<>>,
     medicineRecommendations |-> <<>>,
     ayurvedicMedication |->
        [description |-> "", benefits |-> <<>>, recommendations |-> <<>>,
         importance |-> ""],
     dos |-> <<"Consult a healthcare professional">>,
     donts |-> <<"Don't rely solely on automated analysis">>,
     conditionSpecificData |-> <<>>,
     reportsRequired |-> <<>>,
     healthScore |-> 0]

\* the record the except clause returns (utils.py 658-687); msg is str(e)
ErrorRecord(msg) ==
    [possibleConditions |->
        <<[name |-> "Error Analyzing Symptoms", probability |-> 100,
           description |-> "There was an error analyzing your symptoms: " \o msg,
           category |-> "error"]>>,
     recommendation |-> "Please try again later or consult a healthcare professional.",
     urgency |-> "medium",
     followUpActions |-> <<"Try again later", "Consult a healthcare professional">>,
     riskFactors |-> <<"Unable to analyze symptoms properly">>,
     mealRecommendations |->
        [breakfast |-> <<>>, lunch |-> <<>>, dinner |-> <<>>, note |-> ""],
     exercisePlan |-> <<>>,
     diseases |-> <<>>,
     preventiveMeasures |-> <<>>,
     medicineRecommendations |-> <<>>,
     ayurvedicMedication |->
        [description |-> "", benefits |-> <<>>, recommendations |-> <<>>,
         importance |-> ""],
     dos |-> <<"Consult a healthcare professional">>,
     donts |-> <<"Don't rely solely on automated analysis">>,
     conditionSpecificData |-> <<>>,
     reportsRequired |-> <<>>,
     healthScore |-> 0]

\* str(e) of the ValueError int(d) raises for an over-long digit string
IntErrorText(d) ==
    "Exceeds the limit (" \o ToString(IntMaxStrDigits)
        \o " digits) for integer string conversion: value has " \o ToString(Len(d))
        \o " digits; use sys.set_int_max_str_digits() to increase the limit"

\* the index of the first digit string of a sequence that int() refuses, 0
\* when it accepts them all
FirstOverflow(digits) ==
    LET bad == {i \in 1..Len(digits) : IntRaises(digits[i])}
    IN  IF bad = {} THEN 0 ELSE MinOf(bad)

\* a condition whose probability is not read from the digits
Condition_zero(name, digits, description) ==
    [name |-> name, probability |-> 0, description |-> description,
     category |-> "general"]

Condition(name, digits, description) ==
    [name |-> name, probability |-> IntOf(digits), description |-> description,
     category |-> "general"]

\* condition data without its preventive measures
NoConditionData_actionsOnly == [recommendedActions |-> <<>>]

NoConditionData == [recommendedActions |-> <<>>, preventiveMeasures |-> <<>>]

(***************************************************************************)
(* parse_gemini_response: the steps of the try block, each as a function   *)
(* of the record built so far.  A step in which int() can raise gives the  *)
(* digit string it raised on ("" when it did not) and the record as the    *)
(* step left it.                                                           *)
(***************************************************************************)
\* lines 146-261
Tier1(res, text) ==
    LET \* re.sub(r'^\d+\.\s*', '', full_name)
        StripNumbering(full_name) ==
            LET d == SkipDigits(full_name, 1)
            IN  IF d > 1 /\ Ch(full_name, d) = "."
                THEN Sub(full_name, SkipSpaces(full_name, d + 1), Len(full_name))
                ELSE full_name
        \* condition_info_pattern =
        \*   ([^(]+)\s*\(Probability:\s*(\d+)%\)\s*:?\s*(.*?)(?=\n|$)
        \* searched in a block with re.DOTALL
        ConditionInfo(b) ==
            LET open == "(Probability:"
                \* the pattern matches with its "(" at position r
                MatchAt(r) ==
                    LET a == SkipSpaces(b, r + Len(open))
                    IN  /\ r > 1 /\ Ch(b, r - 1) # "("
                        /\ At(b, r, open)
                        /\ SkipDigits(b, a) > a
                        /\ At(b, SkipDigits(b, a), "%)")
                S == {r \in 1..Len(b) : MatchAt(r)}
                r == MinOf(S)
                parens == {j \in 1..(r - 1) : Ch(b, j) = "("}
            IN
            With([start \in {IF parens = {} THEN 1 ELSE MaxOf(parens) + 1} |->
            LET a == SkipSpaces(b, r + Len(open))
            IN
            With([d \in {SkipDigits(b, a)} |->
            LET g1 == SkipSpaces(b, d + 2)
                c == IF Ch(b, g1) = ":" THEN g1 + 1 ELSE g1
                g2 == SkipSpaces(b, c)
            IN  IF S = {} THEN [ok |-> FALSE, full_name |-> "", digits |-> "", description |-> ""]
                ELSE [ok |-> TRUE,
                      full_name |-> Strip(Sub(b, start, r - 1)),
                      digits |-> Sub(b, a, d - 1),
                      description |-> Strip(Sub(b, g2, LineEnd(b, g2) - 1))]])])
        \* possible_conditions_pattern = POSSIBLE CONDITIONS:(.*?)(?=RECOMMENDATION:|$)
        \* searched with re.DOTALL | re.IGNORECASE; text is group(1).strip()
        PossibleConditionsMatch(s) ==
            LET lit == "POSSIBLE CONDITIONS:"
            IN
            With([a \in {FindIC(s, lit, 1)} |->
            LET Stop(e) == AtIC(s, e, "RECOMMENDATION:") \/ DollarAt(s, e)
            IN
            With([e \in {LazyUntil(s, a + Len(lit), {stop_e \in (a + Len(lit))..(Len(s) + 1) : Stop(stop_e)})} |->
                IF a = 0 THEN [ok |-> FALSE, text |-> ""]
                ELSE [ok |-> TRUE, text |-> Strip(Sub(s, a + Len(lit), e - 1))]])])
    IN
    With([m \in {PossibleConditionsMatch(text)} |->
    With([blocks \in {IF m.ok THEN LiveBlocks(m.text) ELSE <<>>} |->
    LET Ok(info) == info.ok
    IN
    With([infos \in {SelectSeq([i \in 1..Len(blocks) |-> ConditionInfo(blocks[i])], Ok)} |->
    LET bad == FirstOverflow([i \in 1..Len(infos) |-> infos[i].digits])
        done == IF bad = 0 THEN Len(infos) ELSE bad - 1
        conds == [i \in 1..done |->
                    Condition(StripNumbering(infos[i].full_name), infos[i].digits,
                              infos[i].description)]
        names == {conds[i].name : i \in 1..done}
    IN
    With([data \in {[n \in names |->
                        [recommendedActions |-> ConditionSubList(text, n, FALSE),
                         preventiveMeasures |-> ConditionSubList(text, n, TRUE)]]} |->
        [raised |-> IF bad = 0 THEN "" ELSE infos[bad].digits,
         result |-> [res EXCEPT !["possibleConditions"] = conds,
                                !["conditionSpecificData"] = data]]])])])])

\* a tier that runs whatever the earlier tiers found
NoConditionsYet_ignored(res) == TRUE

\* `not result["possibleConditions"]`, the test tiers 2 and 3 start with
\* (utils.py 263, 300)
NoConditionsYet(res) == res["possibleConditions"] = <<>>

\* lines 263-298: nothing is done unless tier 1 found no condition and the
\* POSSIBLE CONDITIONS section exists
Tier2(res, secs) ==
    LET \* re.findall(condition_pattern, conditions_text, re.DOTALL)
        Tier2Matches(cs) ==
            LET RECURSIVE Tier2From(_, _)
                \* the matches of condition_pattern that start at a newline at or after p
                Tier2From(t, p0) ==
                    LET n0 == Find(t, "\n", p0)
                    IN
                    With([m0 \in {Tier2At(t, n0 + 1)} |->
                        IF p0 > Len(t) \/ n0 = 0 THEN <<>>
                        ELSE IF m0.ok THEN <<m0>> \o Tier2From(t, m0.end)
                        ELSE Tier2From(t, n0 + 1)])
            IN
            With([m1 \in {Tier2At(cs, 1)} |->
                IF m1.ok THEN <<m1>> \o Tier2From(cs, m1.end) ELSE Tier2From(cs, 1)])
    IN
    With([ms \in {IF NoConditionsYet(res) /\ HasSection(secs, "POSSIBLE CONDITIONS")
                  THEN Tier2Matches(SectionOf(secs, "POSSIBLE CONDITIONS"))
                  ELSE <<>>} |->
    LET bad == FirstOverflow([i \in 1..Len(ms) |-> ms[i].digits])
        done == IF bad = 0 THEN Len(ms) ELSE bad - 1
        conds == [i \in 1..done |->
                    Condition(Strip(ms[i].name), ms[i].digits,
                              Strip(ms[i].rest \o " " \o ms[i].tail))]
        names == {conds[i].name : i \in 1..done}
    IN  [raised |-> IF bad = 0 THEN "" ELSE ms[bad].digits,
         result |-> IF done = 0 THEN res
                    ELSE [res EXCEPT !["possibleConditions"] = conds,
                                     !["conditionSpecificData"] =
                                         [n \in names |-> NoConditionData]]]])

\* lines 300-332: one condition per section name that holds RECOMMENDED
\* ACTIONS, a name being added once
Tier3(res, secs, text) ==
    LET \* re.search(condition_pattern, response_text, re.IGNORECASE) of tier 3
        Tier3Lookup(tx, cname) ==
            LET \* (\d+)\.\s*NAME(?:[^\d\n]*)\((?:Probability:?\s*)?(\d+)%\)([^:\n]*) tried
                \* at position p under re.IGNORECASE: the "(" the match goes through, 0 when
                \* it fails
                Tier3ParenAt(t, p0, cn) ==
                    LET d0 == SkipDigits(t, p0)
                        w0 == SkipSpaces(t, d0 + 1)
                        n0 == w0 + Len(cn)
                        u0 == RunEndOutside(t, n0, Digits \cup {"\n"})
                    IN
                    With([Q0 \in {{q0 \in n0..(u0 - 1) :
                                    /\ Ch(t, q0) = "("
                                    /\ With([a0 \in {AfterProbabilityWord(t, q0, TRUE)} |->
                                       LET dd0 == SkipDigits(t, a0)
                                       IN  dd0 > a0 /\ At(t, dd0, "%)")])}} |->
                        IF d0 > p0 /\ Ch(t, d0) = "." /\ AtIC(t, w0, cn) /\ Q0 # {} THEN MaxOf(Q0) ELSE 0])
            IN
            With([P \in {{p \in 1..Len(tx) : Ch(tx, p) \in Digits /\ Tier3ParenAt(tx, p, cname) # 0}} |->
            With([q \in {Tier3ParenAt(tx, MinOf(P), cname)} |->
            With([a \in {AfterProbabilityWord(tx, q, TRUE)} |->
            LET dd == SkipDigits(tx, a)
            IN  IF P = {} THEN [ok |-> FALSE, digits |-> "", description |-> ""]
                ELSE [ok |-> TRUE,
                      digits |-> Sub(tx, a, dd - 1),
                      description |->
                        Strip(Sub(tx, dd + 2, RunEndOutside(tx, dd + 2, {":", "\n"}) - 1))]])])])
        \* re.search(r'(\w+)(?:\s+\w+)*\s+RECOMMENDED\s+ACTIONS', section_name,
        \* re.IGNORECASE): group(1), the first word of the match ("" when no match)
        Tier3Name(nm) ==
            LET wordOrSpace == WordChars \cup Whitespace
            IN
            With([R \in {{r \in 2..Len(nm) :
                            /\ Ch(nm, r - 1) \in Whitespace
                            /\ AtIC(nm, r, "RECOMMENDED")
                            /\ LET y == SkipSpaces(nm, r + Len("RECOMMENDED"))
                               IN  y > r + Len("RECOMMENDED") /\ AtIC(nm, y, "ACTIONS")}} |->
            LET P == {p \in 1..Len(nm) :
                        /\ Ch(nm, p) \in WordChars
                        /\ \E r \in R : r > p /\ \A j \in p..(r - 1) : Ch(nm, j) \in wordOrSpace}
            IN  IF P = {} THEN [ok |-> FALSE, name |-> ""]
                ELSE [ok |-> TRUE,
                      name |-> Sub(nm, MinOf(P), SkipWord(nm, MinOf(P)) - 1)]])
        Named(sec) == Tier3Name(sec.name).ok
    IN
    With([named \in {IF NoConditionsYet(res)
                     THEN SelectSeq(secs, Named) ELSE <<>>} |->
    With([found \in {[i \in 1..Len(named) |->
                        [name |-> Tier3Name(named[i].name).name,
                         look |-> Tier3Lookup(text, Tier3Name(named[i].name).name)]]} |->
    LET bad == FirstOverflow([i \in 1..Len(found) |->
                                IF found[i].look.ok THEN found[i].look.digits ELSE ""])
        done == IF bad = 0 THEN Len(found) ELSE bad - 1
        firsts == {i \in 1..done : \A j \in 1..(i - 1) : found[j].name # found[i].name}
        order == SortedSeq(firsts)
        conds == [k \in 1..Len(order) |->
                    LET f == found[order[k]]
                    IN  IF f.look.ok
                        THEN Condition(f.name, f.look.digits, f.look.description)
                        ELSE Condition(f.name, "", "")]
        names == {conds[i].name : i \in 1..Len(conds)}
    IN  [raised |-> IF bad = 0 THEN "" ELSE found[bad].look.digits,
         result |-> IF done = 0 THEN res
                    ELSE [res EXCEPT !["possibleConditions"] = conds,
                                     !["conditionSpecificData"] =
                                         [n \in names |-> NoConditionData]]]])])

\* result[field] = extract_list_items(sections[heading]) when the section
\* exists
ListField(res, secs, heading, field) ==
    IF HasSection(secs, heading)
    THEN Put(res, field, extract_list_items(SectionOf(secs, heading)))
    ELSE res

\* the URGENCY LEVEL section copied as it stands
UrgencyOf_verbatim(content) == content

\* the urgency read from the URGENCY LEVEL section (utils.py 347-354)
UrgencyOf(content) ==
    With([urgency_text \in {Lower(content)} |->
        IF Contains(urgency_text, "high") THEN "high"
        ELSE IF Contains(urgency_text, "medium") \/ Contains(urgency_text, "moderate")
             THEN "medium"
        ELSE "low"])

\* lines 341-365
SectionFields(res, secs) ==
    With([r1 \in {IF HasSection(secs, "RECOMMENDATION")
                  THEN Put(res, "recommendation",
                           clean_text(SectionOf(secs, "RECOMMENDATION")))
                  ELSE res} |->
    With([r2 \in {IF HasSection(secs, "URGENCY LEVEL")
                  THEN Put(r1, "urgency", UrgencyOf(SectionOf(secs, "URGENCY LEVEL")))
                  ELSE r1} |->
    With([r3 \in {ListField(r2, secs, "FOLLOW-UP ACTIONS", "followUpActions")} |->
        ListField(r3, secs, "RISK FACTORS", "riskFactors")])])])

\* lines 367-398
Meals(res, secs) ==
    LET \* result["mealRecommendations"] after lines 368-398, from its value meals
        MealsOf(meals, meal_text) ==
            LET \* re.search(r'These meal recommendations are based on your.*diet
                \* preference.*\.', meal_text, re.IGNORECASE): group(0), "" when no match.
                \* Without re.DOTALL the match stays on one line and runs to the last "."
                \* of the line that follows a "diet preference".
                DietNote(s) ==
                    LET head == "These meal recommendations are based on your"
                        mid == "diet preference"
                        EndOf(a) ==
                            LET le == LineEnd(s, a)
                            IN
                            With([E \in {{j \in a..(le - 1) :
                                            /\ Ch(s, j) = "."
                                            /\ \E k \in (a + Len(head))..(j - Len(mid)) : AtIC(s, k, mid)}} |->
                                IF E = {} THEN 0 ELSE MaxOf(E)])
                    IN
                    With([A \in {{a \in 1..Len(s) : AtIC(s, a, head) /\ EndOf(a) # 0}} |->
                        IF A = {} THEN "" ELSE Sub(s, MinOf(A), EndOf(MinOf(A)))])
                \* re.search(word + r':(.*?)(?=' + next + r':|$)', meal_text,
                \* re.DOTALL | re.IGNORECASE); next = "" stands for the pattern with (?=$)
                MealMatch(s, word, next) ==
                    LET lit == word \o ":"
                    IN
                    With([a \in {FindIC(s, lit, 1)} |->
                    LET Stop(e) == (next # "" /\ AtIC(s, e, next \o ":")) \/ DollarAt(s, e)
                    IN
                    With([e \in {LazyUntil(s, a + Len(lit), {stop_e \in (a + Len(lit))..(Len(s) + 1) : Stop(stop_e)})} |->
                        IF a = 0 THEN [ok |-> FALSE, text |-> ""]
                        ELSE [ok |-> TRUE, text |-> Sub(s, a + Len(lit), e - 1)]])])
            IN
            With([b \in {MealMatch(meal_text, "Breakfast", "Lunch")} |->
            With([l \in {MealMatch(meal_text, "Lunch", "Dinner")} |->
            With([d \in {MealMatch(meal_text, "Dinner", "")} |->
            With([note \in {DietNote(meal_text)} |->
                [breakfast |-> IF b.ok THEN extract_list_items(b.text) ELSE meals.breakfast,
                 lunch |-> IF l.ok THEN extract_list_items(l.text) ELSE meals.lunch,
                 dinner |-> IF d.ok THEN extract_list_items(d.text) ELSE meals.dinner,
                 note |-> IF note # "" THEN note ELSE meals.note]])])])])
    IN  IF HasSection(secs, "INDIAN MEAL RECOMMENDATIONS")
        THEN Put(res, "mealRecommendations",
                 MealsOf(res["mealRecommendations"],
                         SectionOf(secs, "INDIAN MEAL RECOMMENDATIONS")))
        ELSE res

\* lines 400-418
ListSections(res, secs) ==
    With([r1 \in {ListField(res, secs, "EXERCISE PLAN", "exercisePlan")} |->
    With([r2 \in {ListField(r1, secs, "POSSIBLE DISEASES", "diseases")} |->
    With([r3 \in {ListField(r2, secs, "PREVENTIVE MEASURES", "preventiveMeasures")} |->
        ListField(r3, secs, "MEDICINE RECOMMENDATIONS", "medicineRecommendations")])])])

\* lines 420-477: the key is removed when no recommendation was kept
Ayurvedic(res, secs) ==
    LET \* the recommendations appended by the loop of lines 434-472
        AyurvedicRecommendations(ayurvedic_text) ==
            LET \* re.search(marker + r'(.*?)(?=' + next + r'|$)', block, re.DOTALL):
                \* group(1).strip(), "" when no match; next = "" stands for \d+\.
                AyurvedicField(blk, marker, next) ==
                    LET a0 == Find(blk, marker, 1)
                        Stop(e0) == (IF next = "" THEN NumberDotAt(blk, e0) ELSE At(blk, e0, next))
                                   \/ DollarAt(blk, e0)
                        e0 == LazyUntil(blk, a0 + Len(marker), {stop_e \in (a0 + Len(marker))..(Len(blk) + 1) : Stop(stop_e)})
                    IN  IF a0 = 0 THEN "" ELSE Strip(Sub(blk, a0 + Len(marker), e0 - 1))
                \* "Only add if we have at least a name and one of the other fields"
                AyurvedicKept(item) ==
                    item.name # "" /\ (item.description # "" \/ item.importance # "" \/ item.benefits # "")
                AyurvedicItem(block) ==
                    [name |-> FirstLine(block),
                     description |-> AyurvedicField(block, "- Description:", "- Importance:"),
                     importance |-> AyurvedicField(block, "- Importance:", "- Benefits:"),
                     benefits |-> AyurvedicField(block, "- Benefits:", "")]
            IN
            With([blocks \in {LiveBlocks(ayurvedic_text)} |->
            With([items \in {[i \in 1..Len(blocks) |-> AyurvedicItem(blocks[i])]} |->
                SelectSeq(items, AyurvedicKept)])])
    IN
    With([kept \in {AyurvedicRecommendations(SectionOf(secs, "AYURVEDIC MEDICATION"))} |->
        IF ~HasSection(secs, "AYURVEDIC MEDICATION") THEN res
        ELSE IF kept = <<>> THEN Pop(res, "ayurvedicMedication")
        ELSE Put(res, "ayurvedicMedication", [recommendations |-> kept])])

\* lines 479-487
DosDonts(res, secs) ==
    ListField(ListField(res, secs, "DO'S", "dos"), secs, "DON'TS", "donts")

\* lines 489-632
Reports(res, secs) ==
    LET \* result["reportsRequired"] after lines 490-632
        ReportsOf(reports_text) ==
            With([first \in {FirstPassReports(reports_text)} |->
                IF first = <<>> /\ Strip(reports_text) # ""
                THEN AlternativeReports(reports_text)
                ELSE first])
    IN  IF HasSection(secs, "REPORTS REQUIRED")
        THEN Put(res, "reportsRequired", ReportsOf(SectionOf(secs, "REPORTS REQUIRED")))
        ELSE res

\* lines 634-643
HealthScore(res, secs) ==
    LET \* re.search(r'(\d+)/10', health_score_text): group(1)
        ScoreMatch(hs) ==
            LET P == {p \in 1..Len(hs) :
                        Ch(hs, p) \in Digits /\ At(hs, SkipDigits(hs, p), "/10")}
            IN  IF P = {} THEN [ok |-> FALSE, digits |-> ""]
                ELSE [ok |-> TRUE, digits |-> Sub(hs, MinOf(P), SkipDigits(hs, MinOf(P)) - 1)]
        m == IF HasSection(secs, "HEALTH SCORE")
             THEN ScoreMatch(SectionOf(secs, "HEALTH SCORE"))
             ELSE [ok |-> FALSE, digits |-> ""]
    IN  IF ~m.ok THEN [raised |-> "", result |-> res]
        ELSE IF IntRaises(m.digits) THEN [raised |-> m.digits, result |-> res]
        ELSE [raised |-> "", result |-> Put(res, "healthScore", IntOf(m.digits))]

(***************************************************************************)
(* The responses the parser is run on.  A response is put together from a  *)
(* description (doc): the conditions part, then one further section.       *)
(***************************************************************************)
MaxConditions == 2

\* a digit string one longer than int() accepts
TooManyDigits == Join([i \in 1..(IntMaxStrDigits + 1) |-> "9"])

\* the conditions of a well-formed conditions part
ConditionPool ==
    <<[name |-> "Flu", probability |-> 85, description |-> "Viral"],
      [name |-> "Common Cold", probability |-> 60, description |-> "Mild"],
      [name |-> "Asthma", probability |-> 30, description |-> "Chronic"],
      [name |-> "Migraine", probability |-> 15, description |-> "Recurring"]>>

ConditionsText(style, n, sub) ==
    LET \* block i of a well-formed conditions part, in the format the prompt of
        \* analyze_symptoms asks for (app.py 250-285)
        ConditionBlock(i) ==
            LET c == ConditionPool[i]
            IN  ToString(i) \o ". " \o c.name \o " (Probability: " \o ToString(c.probability)
                  \o "%): " \o c.description \o "\n\n"
                  \o (IF sub
                      THEN Upper(c.name) \o " RECOMMENDED ACTIONS:\n1. Rest\n\n"
                             \o Upper(c.name) \o " PREVENTIVE MEASURES:\n1. Wash\n\n"
                      ELSE "")
    IN  CASE style = "wellformed" ->
                IF n = 0 THEN ""
                ELSE "POSSIBLE CONDITIONS:\n"
                       \o Join([i \in 1..n |-> ConditionBlock(i)])
                       \o "RECOMMENDATION:\nSee a *doctor* soon.\n\n"
          [] style = "nocolon" ->
                "POSSIBLE CONDITIONS:\n1. Flu (85%) likely: Viral\n2. Cold (Probability 40%)\n\n"
          [] style = "headings" ->
                "SEASONAL FLU RECOMMENDED ACTIONS:\n1. Rest\n\nSummary:\n1. Seasonal flu (70%) viral\n\n"
          [] style = "starred" ->
                "POSSIBLE CONDITIONS:\n1. **Flu** (Probability: 85%): Viral *infection*\n\n"
          [] style = "digits1" ->
                "POSSIBLE CONDITIONS:\n1. Flu (Probability: " \o TooManyDigits \o "%): Viral\n\n"
          [] style = "digits2" ->
                "POSSIBLE CONDITIONS:\n1. Flu (" \o TooManyDigits \o "%) likely\n\n"
          [] style = "digits3" ->
                "FLU RECOMMENDED ACTIONS:\n1. Rest\n\nSummary:\n1. Flu (" \o TooManyDigits
                  \o "%) viral\n\n"
          \* one condition, a recommendation and an urgency, nothing else
          [] style = "minimal" ->
                "POSSIBLE CONDITIONS:\n1. Flu (Probability: 80%): viral infection\n"
                  \o "RECOMMENDATION:\nRest.\nURGENCY LEVEL:\nlow"
          \* a percentage above 100, where each of the three tiers reads it
          [] style = "over1" ->
                "POSSIBLE CONDITIONS:\n1. Flu (Probability: 150%): Viral\n\n"
          [] style = "over2" ->
                "POSSIBLE CONDITIONS:\n1. Flu (150%) likely\n\n"
          [] style = "over3" ->
                "FLU RECOMMENDED ACTIONS:\n1. Rest\n\nSummary:\n1. Flu (150%) viral\n\n"
          \* no POSSIBLE CONDITIONS part, two headings of recommended actions:
          \* with names of one word, with two names that open with the same word
          [] style = "headings1" ->
                "FLU RECOMMENDED ACTIONS:\n1. Rest\n\nCOLD RECOMMENDED ACTIONS:\n1. Mask\n\n"
                  \o "Summary:\n1. Cold (40%) mild\n\n"
          [] style = "headings2" ->
                "SEASONAL FLU RECOMMENDED ACTIONS:\n1. Rest\n\n"
                  \o "SEASONAL ALLERGY RECOMMENDED ACTIONS:\n1. Mask\n\n"
          \* one condition whose sub-list headings carry its name as it is
          \* written, its name in lower case, another name
          [] style = "subexact" ->
                "POSSIBLE CONDITIONS:\n1. Flu (Probability: 85%): Viral\n\n"
                  \o "Flu RECOMMENDED ACTIONS:\n1. Rest\n\nFlu PREVENTIVE MEASURES:\n1. Wash\n\n"
          [] style = "sublower" ->
                "POSSIBLE CONDITIONS:\n1. Flu (Probability: 85%): Viral\n\n"
                  \o "flu RECOMMENDED ACTIONS:\n1. Rest\n\nflu PREVENTIVE MEASURES:\n1. Wash\n\n"
          [] style = "subother" ->
                "POSSIBLE CONDITIONS:\n1. Flu (Probability: 85%): Viral\n\n"
                  \o "COLD RECOMMENDED ACTIONS:\n1. Rest\n\nCOLD PREVENTIVE MEASURES:\n1. Wash\n\n"

\* the headings of the sections read with extract_list_items, by field
ListHeadings ==
    [followUpActions |-> "FOLLOW-UP ACTIONS", riskFactors |-> "RISK FACTORS",
     exercisePlan |-> "EXERCISE PLAN", diseases |-> "POSSIBLE DISEASES",
     preventiveMeasures |-> "PREVENTIVE MEASURES", dos |-> "DO'S", donts |-> "DON'TS"]

\* bodies of such a section: nothing but blanks, lines the extractor drops
\* (eight one-word lines), a proper list, an item of asterisks only
ListBodies ==
    [blank |-> " \n",
     dropped |-> "a\nb\nc\nd\ne\nf\ng\nh\n",
     items |-> "1. Rest\n2. Drink **water**\n",
     stars |-> "1. **\n"]

\* the diagnostic-report blocks of the REPORTS REQUIRED sections: per block
\* the text that follows each of the five markers ("" for a marker with
\* nothing after it), or no markers at all
ReportLayouts ==
    [three |-> <<[name |-> "CBC", values |-> <<"p", "b", "a", "", "">>]>>,
     two |-> <<[name |-> "CBC", values |-> <<"p", "b", "", "", "">>]>>,
     one |-> <<[name |-> "CBC", values |-> <<"p", "", "", "", "">>]>>,
     mixed |-> <<[name |-> "CBC", values |-> <<"p", "b", "a", "r", "y">>],
                 [name |-> "MRI", values |-> <<"p", "", "", "", "y">>]>>,
     starred |-> <<[name |-> "**CBC**", values |-> <<"*p*", "b", "a", "", "">>]>>]

\* further sections with a fixed text
FixedSections ==
    [none |-> "",
     urgency |-> "URGENCY LEVEL:\nHigh\n",
     meals |-> "INDIAN MEAL RECOMMENDATIONS:\nBreakfast:\n1. Poha\nLunch:\n1. Dal\nDinner:\n1. Roti\nThese meal recommendations are based on your *veg* diet preference.\n",
     medicine |-> "MEDICINE RECOMMENDATIONS:\n1. Paracetamol\n",
     ayurvedic |-> "AYURVEDIC MEDICATION:\n1. Tulsi\n   - Description: *calm*\n   - Importance: high\n   - Benefits: many\n",
     herbsonly |-> "AYURVEDIC MEDICATION:\n1. Tulsi\n2. Neem\n",
     score |-> "HEALTH SCORE:\n7/10 - fair\n",
     longscore |-> "HEALTH SCORE:\n" \o TooManyDigits \o "/10\n",
     \* an upper-case word at the end of the line before a heading
     trailing |-> "EXERCISE PLAN:\n1. Walk DAILY\nRISK FACTORS:\n1. Age\n",
     \* an upper-case word followed by a colon in the middle of a line
     midline |-> "EXERCISE PLAN:\n1. Take vitamin C: daily\n2. Walk\n"]

\* URGENCY LEVEL sections: one of the three words, a synonym, no known word,
\* two words at once, and a heading the section pattern does not match
UrgencySections ==
    [low |-> "URGENCY LEVEL:\nlow\n",
     moderate |-> "URGENCY LEVEL:\nModerate\n",
     other |-> "URGENCY LEVEL:\nRoutine\n",
     both |-> "URGENCY LEVEL:\nNot high, rather low\n",
     unrecognized |-> "Urgency level:\nhigh\n"]

ExtraText(extra) ==
    LET ReportsText(layout) ==
            LET ReportBlockText(i, block) ==
                    ToString(i) \o ". " \o block.name \o "\n"
                      \o Join([k \in 1..Len(FieldMarkers) |->
                                 "   " \o FieldMarkers[k]
                                   \o (IF block.values[k] = "" THEN "" ELSE " " \o block.values[k])
                                   \o "\n"])
                      \o "\n"
            IN  "REPORTS REQUIRED:\n"
                  \o Join([i \in 1..Len(ReportLayouts[layout]) |->
                             ReportBlockText(i, ReportLayouts[layout][i])])
    IN  CASE extra.kind = "list" -> ListHeadings[extra.what] \o ":\n" \o ListBodies[extra.body]
          [] extra.kind = "reports" -> ReportsText(extra.what)
          [] extra.kind = "fixed" -> FixedSections[extra.what]
          [] extra.kind = "urgency" -> UrgencySections[extra.what]

Extras ==
    {[kind |-> "list", what |-> f, body |-> b] :
        f \in DOMAIN ListHeadings, b \in DOMAIN ListBodies}
    \cup {[kind |-> "reports", what |-> l, body |-> ""] : l \in DOMAIN ReportLayouts}
    \cup {[kind |-> "fixed", what |-> x, body |-> ""] : x \in DOMAIN FixedSections}

Docs ==
    LET OtherStyles == {"nocolon", "headings", "starred", "digits1", "digits2", "digits3",
                        "over1", "over2", "over3", "subexact", "sublower", "subother",
                        "headings1", "headings2"}
    IN  {[style |-> "wellformed", n |-> n, sub |-> sub, extra |-> e] :
            n \in 0..MaxConditions, sub \in BOOLEAN, e \in Extras}
        \cup {[style |-> st, n |-> 0, sub |-> FALSE, extra |-> e] :
                st \in OtherStyles,
                e \in {x \in Extras : x.kind = "fixed" /\ x.what \in {"none", "longscore"}}}
        \cup {[style |-> "wellformed", n |-> n, sub |-> FALSE,
               extra |-> [kind |-> "urgency", what |-> u, body |-> ""]] :
                n \in 0..1, u \in DOMAIN UrgencySections}
        \cup {[style |-> "minimal", n |-> 0, sub |-> FALSE,
               extra |-> [kind |-> "fixed", what |-> "none", body |-> ""]]}

Render(d) == ConditionsText(d.style, d.n, d.sub) \o ExtraText(d.extra)

(***************************************************************************)
(* The calls that are not under way in a specification                     *)
(***************************************************************************)
NoListCall == list_text = "" /\ list_items = <<>> /\ list_pc = "idle"

NoEnsureCall == partial = <<>> /\ ensured = <<>> /\ ens_pc = "idle"

NoParseCall ==
    /\ response_text = "" /\ pc = "idle" /\ sections = <<>> /\ result = <<>>
    /\ exc = "" /\ outcome = "idle"
    /\ doc = [style |-> "wellformed", n |-> 0, sub |-> FALSE,
              extra |-> [kind |-> "fixed", what |-> "none", body |-> ""]]

NoHandlerCall ==
    /\ request = <<>> /\ handler_pc = "idle" /\ generated = <<>> /\ response = <<>>

NoCleanCall == clean_arg = "" /\ cleaned = "" /\ clean_pc = "idle"

NoThreadCalls == calls = <<>> /\ log_records = 0

NoServiceCalls ==
    /\ requests = <<>> /\ clock = 0 /\ rate_calls = <<>>
    /\ anonymous_quick_analysis_tracker = <<>> /\ quick_calls = <<>>
    /\ report_pc = "idle" /\ api_key = "" /\ retry_count = 0 /\ attempts = <<>> /\ report_analysis = <<>>
    /\ _jwks_cache = <<>> /\ jwks_endpoint = "up" /\ jwks_fetches = 0 /\ auth_log = <<>>

(***************************************************************************)
(* SpecList: extract_list_items applied to a text                          *)
(***************************************************************************)
MaxListLines == 3

ListTexts ==
    LET \* eight short lines, so that the line filter of lines 725-737 applies, and
        \* a line longer than LongLineChars
        LongTexts ==
            {"SYMPTOMS\nRest a lot\nWater\nNotes:\nEat well daily\n**  **\nSleep\nWalk\n",
             "a\nb\nc\nd\ne\nf\ng\nh\n",
             "a\nb\nc\nd\ne\nf\ng\n"
               \o Join([i \in 1..(LongLineChars + 1) |-> "x"])}
        LinePool ==
            {"1. Rest", "2. **", "- Drink water", "* **", "**", "Stay home and rest", "",
             "3. ", "- "}
    IN  {Join([i \in 1..Len(q) |-> IF i = 1 THEN q[i] ELSE "\n" \o q[i]]) :
            q \in UNION {[1..m -> LinePool] : m \in 0..MaxListLines}}
        \cup LongTexts

InitList ==
    /\ list_text \in ListTexts
    /\ list_items = <<>>
    /\ list_pc = "call"
    /\ NoEnsureCall /\ NoParseCall /\ NoHandlerCall /\ NoCleanCall /\ NoThreadCalls /\ NoServiceCalls

ExtractListItems ==
    /\ list_pc = "call"
    /\ list_items' = extract_list_items(list_text)
    /\ list_pc' = "returned"
    /\ UNCHANGED <<list_text, ensureVars, parseVars, handlerVars, cleanVars, threadVars, serviceVars>>

NextList == ExtractListItems

SpecList == InitList /\ [][NextList]_vars

\* C9: every item of the list extract_list_items returns is a non-empty
\* string; an item that is empty once asterisks are removed and whitespace
\* is collapsed has been filtered out.
C9_ItemsNonEmpty ==
    list_pc = "returned" => \A i \in 1..Len(list_items) : list_items[i] # ""

\* C20: extract_list_items returns the items of the first of its strategies
\* (numbered lines, dash or bullet lines, every non-empty line of a short
\* text or of one with a long line, the lines of a longer text that are not
\* headers and have more than one word) that yields an item of the returned
\* list, in source order, and the empty sequence only when none yields any.
C20_FirstYieldingStrategy ==
    list_pc = "returned" =>
        LET Cleaned(items) ==
                LET kept == SelectSeq(items, NonBlank)
                IN  [i \in 1..Len(kept) |-> clean_text(kept[i])]
            lines == StrippedLines(list_text)
            direct == \/ Len(lines) < ShortListLines
                      \/ \E i \in 1..Len(lines) : Len(lines[i]) > LongLineChars
            IsUpper(l) ==
                /\ \E i \in 1..Len(l) : Ch(l, i) \in UpperLetters
                /\ \A i \in 1..Len(l) : Ch(l, i) \notin LowerLetters
            Words(l) ==
                Cardinality({i \in 1..Len(l) :
                    Ch(l, i) \notin Whitespace /\ (i = 1 \/ Ch(l, i - 1) \in Whitespace)})
            Kept(l) == ~IsUpper(l) /\ Ch(l, Len(l)) # ":" /\ Words(l) > 1
            yields == <<Cleaned(NumberedItems(list_text, 1)),
                        Cleaned(DashItems(list_text, 1, {"-", "*"})),
                        IF direct THEN Cleaned(lines) ELSE <<>>,
                        IF direct THEN <<>> ELSE Cleaned(SelectSeq(lines, Kept))>>
            some == {k \in 1..4 : yields[k] # <<>>}
        IN  IF some = {} THEN list_items = <<>>
            ELSE list_items = yields[CHOOSE k \in some : \A j \in some : k <= j]

(***************************************************************************)
(* SpecClean: clean_text (utils.py 53-59) applied to a string              *)
(***************************************************************************)
MaxCleanLen == 5

\* every string of up to MaxCleanLen characters over a letter, the asterisk
\* and three kinds of whitespace
CleanTexts ==
    {Join(q) : q \in UNION {[1..m -> {"a", "*", " ", "\n", "\t"}] : m \in 0..MaxCleanLen}}

InitClean ==
    /\ clean_arg \in CleanTexts
    /\ cleaned = ""
    /\ clean_pc = "call"
    /\ NoListCall /\ NoEnsureCall /\ NoParseCall /\ NoHandlerCall /\ NoThreadCalls /\ NoServiceCalls

CleanText ==
    /\ clean_pc = "call"
    /\ cleaned' = clean_text(clean_arg)
    /\ clean_pc' = "returned"
    /\ UNCHANGED <<clean_arg, listVars, ensureVars, parseVars, handlerVars, threadVars, serviceVars>>

NextClean == CleanText

SpecClean == InitClean /\ [][NextClean]_vars

\* C15: clean_text is idempotent, and what it returns holds no asterisk, no
\* two whitespace characters in a row, no newline, and no whitespace at
\* either end.
C15_CleanIdempotent ==
    clean_pc = "returned" =>
        /\ clean_text(cleaned) = cleaned
        /\ \A i \in 1..Len(cleaned) :
              /\ Ch(cleaned, i) \notin {"*", "\n"}
              /\ ~(Ch(cleaned, i) \in Whitespace /\ Ch(cleaned, i + 1) \in Whitespace)
        /\ Ch(cleaned, 1) \notin Whitespace
        /\ Ch(cleaned, Len(cleaned)) \notin Whitespace

\* a string with an asterisk between two blanks was cleaned to two words
\* one space apart
C15_Witness ==
    clean_pc = "returned" /\ clean_arg = "a * a" /\ cleaned = "a a"

(***************************************************************************)
(* SpecEnsure: ensure_comprehensive_analysis (utils.py 790-843) applied to *)
(* a partial record                                                        *)
(***************************************************************************)
MaxPartialFields == 2

\* the partial records: up to MaxPartialFields fields, each with a value
\* that is truthy or falsy; the complete record with one field removed or
\* falsy; a meal plan with any of its sub-fields absent, falsy or truthy
PartialRecords ==
    LET Truthy(k) ==
            CASE k = "recommendation" -> "Rest"
              [] k = "urgency" -> "high"
              [] k = "healthScore" -> 7
              [] k = "possibleConditions" -> <<Condition("Flu", "85", "Viral")>>
              [] k = "mealRecommendations" ->
                    [breakfast |-> <<"Poha">>, lunch |-> <<"Dal">>, dinner |-> <<"Roti">>,
                     note |-> "Light meals"]
              [] k = "ayurvedicMedication" ->
                    [recommendations |->
                        <<[name |-> "Tulsi", description |-> "calm", importance |-> "high",
                           benefits |-> "many"]>>]
              [] k = "conditionSpecificData" -> [n \in {"Flu"} |-> NoConditionData]
              [] OTHER -> <<"Keep warm">>
        Empty(k) ==
            IF k \in StringFields \cup {"note"} THEN "" ELSE IF k = "healthScore" THEN 0 ELSE <<>>
        Some(K, Z) == [k \in K |-> IF k \in Z THEN Empty(k) ELSE Truthy(k)]
        MealKeys == {"breakfast", "lunch", "dinner", "note"}
        MealValue(k) == IF k = "note" THEN "Light meals" ELSE <<"Poha">>
        Small == {K \in SUBSET AnalysisFields : Cardinality(K) <= MaxPartialFields}
    IN  UNION {{Some(K, Z) : Z \in SUBSET K} : K \in Small}
        \cup {Some(AnalysisFields, {})}
        \cup {Some(AnalysisFields \ {k}, {}) : k \in AnalysisFields}
        \cup {Some(AnalysisFields, {k}) : k \in AnalysisFields}
        \cup UNION {{[mealRecommendations |->
                        [k \in K |-> IF k \in Z THEN Empty(k) ELSE MealValue(k)]] :
                     Z \in SUBSET K} : K \in SUBSET MealKeys}

InitEnsure ==
    /\ partial \in PartialRecords
    /\ ensured = <<>>
    /\ ens_pc = "call"
    /\ NoListCall /\ NoParseCall /\ NoHandlerCall /\ NoCleanCall /\ NoThreadCalls /\ NoServiceCalls

EnsureComprehensiveAnalysis ==
    /\ ens_pc = "call"
    /\ ensured' = ensure_comprehensive_analysis(partial)
    /\ ens_pc' = "returned"
    /\ UNCHANGED <<partial, listVars, parseVars, handlerVars, cleanVars, threadVars, serviceVars>>

NextEnsure == EnsureComprehensiveAnalysis

SpecEnsure == InitEnsure /\ [][NextEnsure]_vars

\* C10: after ensure_comprehensive_analysis every top-level field, every
\* meal sub-field and the recommendations of the Ayurvedic advice are
\* present and non-empty.
C10_Complete ==
    ens_pc = "returned" =>
        /\ \A k \in AnalysisFields : ~Missing(ensured, k)
        /\ \A k \in {"breakfast", "lunch", "dinner", "note"} :
              ~Missing(ensured["mealRecommendations"], k)
        /\ ensured["ayurvedicMedication"].recommendations # <<>>

\* C11: ensure_comprehensive_analysis leaves every field that is present
\* with a truthy value as it was, a truthy sub-field of mealRecommendations
\* included; whatever it writes was missing or falsy before the call.
C11_TruthyUnchanged ==
    ens_pc = "returned" =>
        /\ \A k \in DOMAIN partial \ {"mealRecommendations"} :
              ~Falsy(k, partial[k]) => (k \in DOMAIN ensured /\ ensured[k] = partial[k])
        /\ ~Missing(partial, "mealRecommendations") =>
              /\ "mealRecommendations" \in DOMAIN ensured
              /\ \A k \in DOMAIN partial["mealRecommendations"] :
                    ~Falsy(k, partial["mealRecommendations"][k]) =>
                        /\ k \in DOMAIN ensured["mealRecommendations"]
                        /\ ensured["mealRecommendations"][k] =
                              partial["mealRecommendations"][k]
        /\ \A k \in DOMAIN ensured :
              (k \notin DOMAIN partial \/ ensured[k] # partial[k]) =>
                  \/ Missing(partial, k)
                  \/ /\ k = "mealRecommendations"
                     /\ \E j \in {"breakfast", "lunch", "dinner", "note"} :
                           Missing(partial[k], j)

\* a meal plan with a truthy breakfast and no lunch went through the call,
\* which wrote to it
C11_Witness ==
    /\ ens_pc = "returned"
    /\ "mealRecommendations" \in DOMAIN partial
    /\ "breakfast" \in DOMAIN partial["mealRecommendations"]
    /\ partial["mealRecommendations"]["breakfast"] # <<>>
    /\ "lunch" \notin DOMAIN partial["mealRecommendations"]
    /\ ensured["mealRecommendations"]["breakfast"] = partial["mealRecommendations"]["breakfast"]
    /\ ensured # partial

(***************************************************************************)
(* Spec: parse_gemini_response (utils.py 61-687) run on a response, one    *)
(* action per step of its body                                             *)
(***************************************************************************)
Init ==
    /\ doc \in Docs
    /\ response_text = Render(doc)
    /\ pc = "START"
    /\ sections = <<>>
    /\ result = <<>>
    /\ exc = ""
    /\ outcome = "running"
    /\ NoListCall /\ NoEnsureCall /\ NoHandlerCall /\ NoCleanCall /\ NoThreadCalls /\ NoServiceCalls

\* the function without its test for an empty response
Start_unchecked ==
    /\ pc = "START"
    /\ result' = InitialResult
    /\ pc' = "SPLIT_SECTIONS"
    /\ UNCHANGED <<response_text, sections, exc, outcome, doc, listVars, ensureVars, handlerVars, cleanVars, threadVars, serviceVars>>

\* lines 69-129: the record for an empty response is returned at once,
\* otherwise the result dictionary is initialized
Start ==
    /\ pc = "START"
    /\ IF response_text = ""
       THEN result' = EmptyResponseRecord /\ pc' = "DONE" /\ outcome' = "returned"
       ELSE result' = InitialResult /\ pc' = "SPLIT_SECTIONS" /\ UNCHANGED outcome
    /\ UNCHANGED <<response_text, sections, exc, doc, listVars, ensureVars, handlerVars, cleanVars, threadVars, serviceVars>>

\* lines 132-140
SplitIntoSections ==
    /\ pc = "SPLIT_SECTIONS"
    /\ sections' = SplitSections(response_text, 1, <<>>)
    /\ pc' = "EXTRACT_CONDITIONS_TIER1"
    /\ UNCHANGED <<response_text, result, exc, outcome, doc, listVars, ensureVars, handlerVars, cleanVars, threadVars, serviceVars>>

\* lines 146-261
ExtractConditionsTier1 ==
    /\ pc = "EXTRACT_CONDITIONS_TIER1"
    /\ \E t \in {Tier1(result, response_text)} :
           /\ result' = t.result
           /\ IF t.raised # ""
              THEN exc' = IntErrorText(t.raised) /\ pc' = "RAISED"
              ELSE exc' = exc /\ pc' = "EXTRACT_CONDITIONS_TIER2"
    /\ UNCHANGED <<response_text, sections, outcome, doc, listVars, ensureVars, handlerVars, cleanVars, threadVars, serviceVars>>

\* lines 263-298
ExtractConditionsTier2 ==
    /\ pc = "EXTRACT_CONDITIONS_TIER2"
    /\ \E t \in {Tier2(result, sections)} :
           /\ result' = t.result
           /\ IF t.raised # ""
              THEN exc' = IntErrorText(t.raised) /\ pc' = "RAISED"
              ELSE exc' = exc /\ pc' = "EXTRACT_CONDITIONS_TIER3"
    /\ UNCHANGED <<response_text, sections, outcome, doc, listVars, ensureVars, handlerVars, cleanVars, threadVars, serviceVars>>

\* lines 300-332
ExtractConditionsTier3 ==
    /\ pc = "EXTRACT_CONDITIONS_TIER3"
    /\ \E t \in {Tier3(result, sections, response_text)} :
           /\ result' = t.result
           /\ IF t.raised # ""
              THEN exc' = IntErrorText(t.raised) /\ pc' = "RAISED"
              ELSE exc' = exc /\ pc' = "FILL_DEFAULTS"
    /\ UNCHANGED <<response_text, sections, outcome, doc, listVars, ensureVars, handlerVars, cleanVars, threadVars, serviceVars>>

\* lines 334-336: result = ensure_comprehensive_analysis(result)
FillDefaults ==
    /\ pc = "FILL_DEFAULTS"
    /\ result' = ensure_comprehensive_analysis(result)
    /\ pc' = "EXTRACT_SECTION_FIELDS"
    /\ UNCHANGED <<response_text, sections, exc, outcome, doc, listVars, ensureVars, handlerVars, cleanVars, threadVars, serviceVars>>

\* lines 338-632: the sections are read one after the other, in this order
ExtractSections ==
    /\ pc \in {"EXTRACT_SECTION_FIELDS", "EXTRACT_MEALS", "EXTRACT_LIST_SECTIONS",
               "EXTRACT_AYURVEDIC", "EXTRACT_DOS_DONTS", "EXTRACT_REPORTS"}
    /\ result' =
          CASE pc = "EXTRACT_SECTION_FIELDS" -> SectionFields(result, sections)
            [] pc = "EXTRACT_MEALS" -> Meals(result, sections)
            [] pc = "EXTRACT_LIST_SECTIONS" -> ListSections(result, sections)
            [] pc = "EXTRACT_AYURVEDIC" -> Ayurvedic(result, sections)
            [] pc = "EXTRACT_DOS_DONTS" -> DosDonts(result, sections)
            [] pc = "EXTRACT_REPORTS" -> Reports(result, sections)
    /\ pc' =
          CASE pc = "EXTRACT_SECTION_FIELDS" -> "EXTRACT_MEALS"
            [] pc = "EXTRACT_MEALS" -> "EXTRACT_LIST_SECTIONS"
            [] pc = "EXTRACT_LIST_SECTIONS" -> "EXTRACT_AYURVEDIC"
            [] pc = "EXTRACT_AYURVEDIC" -> "EXTRACT_DOS_DONTS"
            [] pc = "EXTRACT_DOS_DONTS" -> "EXTRACT_REPORTS"
            [] pc = "EXTRACT_REPORTS" -> "EXTRACT_HEALTH_SCORE"
    /\ UNCHANGED <<response_text, sections, exc, outcome, doc, listVars, ensureVars, handlerVars, cleanVars, threadVars, serviceVars>>

\* lines 634-652: the health score, then `return result`
ExtractHealthScore ==
    /\ pc = "EXTRACT_HEALTH_SCORE"
    /\ \E t \in {HealthScore(result, sections)} :
           /\ result' = t.result
           /\ IF t.raised # ""
              THEN exc' = IntErrorText(t.raised) /\ pc' = "RAISED" /\ UNCHANGED outcome
              ELSE exc' = exc /\ pc' = "DONE" /\ outcome' = "returned"
    /\ UNCHANGED <<response_text, sections, doc, listVars, ensureVars, handlerVars, cleanVars, threadVars, serviceVars>>

\* an except clause that lets the exception through
ParseFailed_propagating ==
    /\ pc = "RAISED"
    /\ result' = result
    /\ pc' = "PARSE_FAILED"
    /\ outcome' = "raised"
    /\ UNCHANGED <<response_text, sections, exc, doc, listVars, ensureVars, handlerVars, cleanVars, threadVars, serviceVars>>

\* lines 653-687: `except Exception as e` returns the error record
ParseFailed ==
    /\ pc = "RAISED"
    /\ result' = ErrorRecord(exc)
    /\ pc' = "PARSE_FAILED"
    /\ outcome' = "returned"
    /\ UNCHANGED <<response_text, sections, exc, doc, listVars, ensureVars, handlerVars, cleanVars, threadVars, serviceVars>>

Next ==
    \/ Start
    \/ SplitIntoSections
    \/ ExtractConditionsTier1
    \/ ExtractConditionsTier2
    \/ ExtractConditionsTier3
    \/ FillDefaults
    \/ ExtractSections
    \/ ExtractHealthScore
    \/ ParseFailed

Spec == Init /\ [][Next]_vars

\* C1: parse_gemini_response never propagates an exception.  While the call
\* is under way it is at a position from which a step is taken (a raised
\* exception is at the position the except clause handles), the call ends
\* only by returning a record, and a call in which a step raised ends in
\* PARSE_FAILED with the error record whose description carries the
\* exception text.
C1_NeverPropagates ==
    /\ outcome \in {"running", "returned"}
    /\ outcome = "running" =>
          pc \in {"START", "SPLIT_SECTIONS", "EXTRACT_CONDITIONS_TIER1",
                  "EXTRACT_CONDITIONS_TIER2", "EXTRACT_CONDITIONS_TIER3", "FILL_DEFAULTS",
                  "EXTRACT_SECTION_FIELDS", "EXTRACT_MEALS", "EXTRACT_LIST_SECTIONS",
                  "EXTRACT_AYURVEDIC", "EXTRACT_DOS_DONTS", "EXTRACT_REPORTS",
                  "EXTRACT_HEALTH_SCORE", "RAISED"}
    /\ outcome = "returned" =>
          /\ pc \in {"DONE", "PARSE_FAILED"}
          /\ "possibleConditions" \in DOMAIN result
    /\ (outcome = "returned" /\ exc # "") =>
          /\ pc = "PARSE_FAILED"
          /\ result["possibleConditions"][1].name = "Error Analyzing Symptoms"
          /\ Contains(result["possibleConditions"][1].description, exc)

\* a step raised and the call returned all the same
C1_Witness == outcome = "returned" /\ pc = "PARSE_FAILED" /\ exc # ""

\* C2: every record parse_gemini_response returns holds each of the sixteen
\* AnalysisRecord fields, ayurvedicMedication included.
C2_AllFieldsPresent ==
    outcome = "returned" => DOMAIN result = AnalysisFields

\* C3: a list field whose section is present but gives no item holds its
\* default placeholder list in the record returned on the non-error path.
C3_EmptySectionDefaults ==
    pc = "DONE" =>
        \A f \in DOMAIN ListHeadings :
            (/\ HasSection(sections, ListHeadings[f])
             /\ extract_list_items(SectionOf(sections, ListHeadings[f])) = <<>>)
            => result[f] = default_lists[f]

\* C4: a block of the REPORTS REQUIRED section is listed in reportsRequired
\* exactly when at least three of its five labeled fields are non-empty.
C4_ReportThreshold ==
    (pc = "DONE" /\ doc.extra.kind = "reports") =>
        LET blocks == ReportLayouts[doc.extra.what]
            reports == result["reportsRequired"]
            Count(b) == Cardinality({k \in 1..Len(b.values) : b.values[k] # ""})
            Listed(b) ==
                \E i \in 1..Len(reports) :
                    /\ "name" \in DOMAIN reports[i]
                    /\ Contains(clean_text(reports[i].name), clean_text(b.name))
        IN  \A j \in 1..Len(blocks) : Listed(blocks[j]) <=> Count(blocks[j]) >= 3

\* C5: when a step raised, the record returned is the one fixed error
\* record: a single condition named for the failure whose description
\* carries the exception text, every field present, nothing of what was
\* extracted before the exception.
C5_UniformErrorRecord ==
    pc = "PARSE_FAILED" =>
        result =
            [possibleConditions |->
                <<[name |-> "Error Analyzing Symptoms", probability |-> 100,
                   description |-> "There was an error analyzing your symptoms: " \o exc,
                   category |-> "error"]>>,
             recommendation |-> "Please try again later or consult a healthcare professional.",
             urgency |-> "medium",
             followUpActions |-> <<"Try again later", "Consult a healthcare professional">>,
             riskFactors |-> <<"Unable to analyze symptoms properly">>,
             mealRecommendations |->
                [breakfast |-> <<>>, lunch |-> <<>>, dinner |-> <<>>, note |-> ""],
             exercisePlan |-> <<>>, diseases |-> <<>>, preventiveMeasures |-> <<>>,
             medicineRecommendations |-> <<>>,
             ayurvedicMedication |->
                [description |-> "", benefits |-> <<>>, recommendations |-> <<>>,
                 importance |-> ""],
             dos |-> <<"Consult a healthcare professional">>,
             donts |-> <<"Don't rely solely on automated analysis">>,
             conditionSpecificData |-> <<>>,
             reportsRequired |-> <<>>,
             healthScore |-> 0]

\* the health score raised after conditions had been extracted
C5_Witness ==
    /\ pc = "PARSE_FAILED"
    /\ doc.style = "wellformed" /\ doc.n >= 1 /\ doc.extra.what = "longscore"

\* C12: the urgency of every returned record is one of low, medium and
\* high, and it is medium when the response has no URGENCY LEVEL section
\* the parser recognizes.
C12_UrgencyValues ==
    outcome = "returned" =>
        /\ result["urgency"] \in {"low", "medium", "high"}
        /\ ~HasSection(sections, "URGENCY LEVEL") => result["urgency"] = "medium"

\* a response whose urgency heading the section pattern does not match was
\* parsed to the end
C12_Witness ==
    /\ pc = "DONE"
    /\ doc.extra.kind = "urgency" /\ doc.extra.what = "unrecognized"
    /\ ~HasSection(sections, "URGENCY LEVEL")
    /\ result["urgency"] = "medium"

\* C14: every condition of a returned record has an integer probability
\* within 0..100, whichever tier read it and whatever digits stand before
\* the percent sign.
C14_ProbabilityInRange ==
    outcome = "returned" =>
        \A i \in 1..Len(result["possibleConditions"]) :
            result["possibleConditions"][i].probability \in 0..100

\* C16: for the minimal valid response, one condition block followed by a
\* recommendation and an urgency, the record returned has exactly one
\* condition, named Flu with probability 80, the recommendation "Rest." and
\* the urgency low.
C16_MinimalInput ==
    (/\ outcome = "returned"
     /\ response_text = "POSSIBLE CONDITIONS:\n1. Flu (Probability: 80%): viral infection\n"
                           \o "RECOMMENDATION:\nRest.\nURGENCY LEVEL:\nlow")
    => /\ Len(result["possibleConditions"]) = 1
       /\ result["possibleConditions"][1].name = "Flu"
       /\ result["possibleConditions"][1].probability = 80
       /\ result["recommendation"] = "Rest."
       /\ result["urgency"] = "low"

\* the minimal response went through every step of the parse
C16_Witness ==
    pc = "DONE" /\ doc.style = "minimal" /\ HasSection(sections, "URGENCY LEVEL")

\* C17: for the empty response the record returned has exactly one
\* condition, named Analysis Failed, and the urgency medium.
C17_EmptyInput ==
    (outcome = "returned" /\ response_text = "")
    => /\ Len(result["possibleConditions"]) = 1
       /\ result["possibleConditions"][1].name = "Analysis Failed"
       /\ result["urgency"] = "medium"

\* the call on the empty response returned
C17_Witness ==
    outcome = "returned" /\ response_text = "" /\ result = EmptyResponseRecord

\* C18: in a successful parse FILL_DEFAULTS is the last step before DONE: the
\* step taken from FILL_DEFAULTS returns the record, and a parse that went
\* past the empty-response test reaches DONE by that step only, so that no
\* extraction step writes to the record after the defaults were filled in.
C18_FillDefaultsLast ==
    [][/\ pc = "FILL_DEFAULTS" => (pc' = "DONE" /\ outcome' = "returned")
       /\ (pc' = "DONE" /\ pc # "START") => pc = "FILL_DEFAULTS"]_vars

\* C19: condition extraction is a fallback chain, not a merge: tier 2 and
\* tier 3 leave the conditions alone when an earlier tier found any, and the
\* conditions of a record returned without error are those of one single
\* tier (none when no tier found any).
C19_FallbackChain ==
    /\ [][(/\ pc \in {"EXTRACT_CONDITIONS_TIER2", "EXTRACT_CONDITIONS_TIER3"}
           /\ result["possibleConditions"] # <<>>)
          => result'["possibleConditions"] = result["possibleConditions"]]_vars
    /\ [](pc = "DONE" /\ response_text # "" =>
            result["possibleConditions"] \in
                {Tier1(InitialResult, response_text).result["possibleConditions"],
                 Tier2(InitialResult, sections).result["possibleConditions"],
                 Tier3(InitialResult, sections, response_text).result["possibleConditions"]})

\* tier 1 found nothing in the response and tier 2 found its conditions,
\* which tier 3 left alone
C19_Witness ==
    /\ pc = "FILL_DEFAULTS" /\ doc.style = "nocolon"
    /\ Tier1(InitialResult, response_text).result["possibleConditions"] = <<>>
    /\ result["possibleConditions"] # <<>>
    /\ result["possibleConditions"] = Tier2(InitialResult, sections).result["possibleConditions"]

C8_NoAsterisk ==
    outcome = "returned" =>
        LET Star(x) == Contains(x, "*")
            StarIn(list) == \E i \in 1..Len(list) : Star(list[i])
            StarInRecord(r) == \E k \in DOMAIN r : Star(r[k])
            conds == result["possibleConditions"]
            meals == result["mealRecommendations"]
            data == result["conditionSpecificData"]
            reports == result["reportsRequired"]
            lists == {"followUpActions", "riskFactors", "exercisePlan", "diseases",
                      "preventiveMeasures", "medicineRecommendations", "dos", "donts"}
        IN  /\ \A i \in 1..Len(conds) : ~Star(conds[i].name) /\ ~Star(conds[i].description)
            /\ ~Star(result["recommendation"])
            /\ \A f \in lists : ~StarIn(result[f])
            /\ ~StarIn(meals.breakfast) /\ ~StarIn(meals.lunch) /\ ~StarIn(meals.dinner)
            /\ ~Star(meals.note)
            /\ "ayurvedicMedication" \in DOMAIN result =>
                  \A i \in 1..Len(result["ayurvedicMedication"].recommendations) :
                      ~StarInRecord(result["ayurvedicMedication"].recommendations[i])
            /\ \A i \in 1..Len(reports) : ~StarInRecord(reports[i])
            /\ \A n \in DOMAIN data :
                  ~StarIn(data[n].recommendedActions) /\ ~StarIn(data[n].preventiveMeasures)

\* C21: the Section Splitter recognizes a heading only at the start of a
\* line.  The label of every section is the text of one heading line (a line
\* of upper-case words and apostrophes closed by a colon), and the body
\* stored for a heading line is the text from the end of that line up to the
\* next heading line or the end of the response; an upper-case word before a
\* colon in the middle of a line ends no body.
C21_HeadingsAtLineStart ==
    pc \notin {"idle", "START", "SPLIT_SECTIONS"} =>
        LET s == response_text
            HeadingLine(p) ==
                /\ p = 1 \/ Ch(s, p - 1) = "\n"
                /\ LineEnd(s, p) - 1 > p
                /\ Ch(s, LineEnd(s, p) - 1) = ":"
                /\ \A k \in p..(LineEnd(s, p) - 2) : Ch(s, k) \in UpperLetters \cup {" ", "'"}
            heads == {p \in 1..Len(s) : HeadingLine(p)}
            Label(p) == Upper(Strip(Sub(s, p, LineEnd(s, p) - 2)))
            later(p) == {q \in heads : q > p}
            NextHead(p) == IF later(p) = {} THEN Len(s) + 1 ELSE MinOf(later(p))
            Body(p) == Strip(Sub(s, LineEnd(s, p) + 1, NextHead(p) - 1))
        IN  /\ \A i \in 1..Len(sections) : \E p \in heads : sections[i].name = Label(p)
            /\ \A p \in heads :
                  (Body(p) # "" /\ \A q \in later(p) : Label(q) # Label(p))
                  => /\ HasSection(sections, Label(p))
                     /\ SectionOf(sections, Label(p)) = Body(p)

\* C22 as stated: in tier 1 the sub-lists of a condition are filled only
\* from a heading line whose name is character for character the condition
\* name; a heading whose name differs in letter case leaves both lists
\* empty.
C22_ExactNameJoin ==
    (pc = "DONE" /\ doc.style \in {"wellformed", "subexact", "sublower", "subother"}) =>
        LET data == result["conditionSpecificData"]
            Heading(n, words) ==
                \E p \in 1..Len(response_text) :
                    /\ p = 1 \/ Ch(response_text, p - 1) = "\n"
                    /\ At(response_text, p, n \o words)
        IN  \A n \in DOMAIN data :
                /\ data[n].recommendedActions # <<>> => Heading(n, " RECOMMENDED ACTIONS:")
                /\ data[n].preventiveMeasures # <<>> => Heading(n, " PREVENTIVE MEASURES:")

\* C22, amended: the join does not regard letter case.  The sub-lists of a
\* condition are filled exactly when a heading line carries the condition
\* name in whatever letter case, and are empty when only headings of another
\* name are there.
C22_CaseInsensitiveJoin ==
    (pc = "DONE" /\ doc.style \in {"wellformed", "subexact", "sublower", "subother"}) =>
        LET data == result["conditionSpecificData"]
            Heading(n, words) ==
                \E p \in 1..Len(response_text) :
                    /\ p = 1 \/ Ch(response_text, p - 1) = "\n"
                    /\ Lower(Sub(response_text, p, p + Len(n \o words) - 1)) = Lower(n \o words)
        IN  \A n \in DOMAIN data :
                /\ data[n].recommendedActions # <<>> <=> Heading(n, " RECOMMENDED ACTIONS:")
                /\ data[n].preventiveMeasures # <<>> <=> Heading(n, " PREVENTIVE MEASURES:")

\* the headings carry the condition name in lower case and both sub-lists
\* were filled from them
C22_Witness ==
    /\ pc = "DONE" /\ doc.style = "sublower"
    /\ result["conditionSpecificData"]["Flu"].recommendedActions = <<"Rest">>
    /\ result["conditionSpecificData"]["Flu"].preventiveMeasures = <<"Wash">>

\* C23: when tiers 1 and 2 find no condition, tier 3 gives one condition per
\* distinct "<NAME> RECOMMENDED ACTIONS" heading, named by the whole <NAME>
\* (every word of it), so that two headings with different names give two
\* conditions; a condition no numbered line of the response names has
\* probability 0 and an empty description.
C23_Tier3WholeName ==
    (/\ pc = "DONE" /\ response_text # ""
     /\ Tier1(InitialResult, response_text).result["possibleConditions"] = <<>>
     /\ Tier2(InitialResult, sections).result["possibleConditions"] = <<>>) =>
        LET words == " RECOMMENDED ACTIONS"
            conds == result["possibleConditions"]
            IsHeading(name) ==
                /\ Len(name) > Len(words)
                /\ Sub(name, Len(name) - Len(words) + 1, Len(name)) = words
            Whole(name) == Strip(Sub(name, 1, Len(name) - Len(words)))
            wholes == {Whole(sections[i].name) :
                         i \in {j \in 1..Len(sections) : IsHeading(sections[j].name)}}
            Numbered(name) ==
                \E p \in 1..Len(response_text) :
                    /\ Ch(response_text, p) \in Digits
                    /\ Lower(Sub(response_text, p + 1, p + 2 + Len(name))) = ". " \o Lower(name)
        IN  /\ {conds[i].name : i \in 1..Len(conds)} = wholes
            /\ Len(conds) = Cardinality(wholes)
            /\ \A i \in 1..Len(conds) :
                  ~Numbered(conds[i].name)
                  => conds[i].probability = 0 /\ conds[i].description = ""

\* C24: for a response with the heading line FOLLOW-UP ACTIONS: followed by
\* numbered items, the followUpActions of the record returned are these
\* items, cleaned and in source order, not the default list, and no section
\* holds a part of the heading line in its text.
C24_FollowUpActionsRead ==
    (/\ pc = "DONE"
     /\ doc.extra.kind = "list" /\ doc.extra.what = "followUpActions"
     /\ doc.extra.body = "items") =>
        /\ result["followUpActions"] = <<"Rest", "Drink water">>
        /\ result["followUpActions"] # default_lists["followUpActions"]
        /\ \A i \in 1..Len(sections) : ~Contains(sections[i].content, "FOLLOW-")

\* C25: in every record returned without error the keys of
\* conditionSpecificData are the names of possibleConditions, each key maps
\* to a record of exactly the two lists recommendedActions and
\* preventiveMeasures, and both lists are empty for the conditions of tier 2
\* and tier 3.
C25_ConditionDataKeys ==
    (pc = "DONE" /\ response_text # "") =>
        LET conds == result["possibleConditions"]
            data == result["conditionSpecificData"]
        IN  /\ DOMAIN data = {conds[i].name : i \in 1..Len(conds)}
            /\ \A n \in DOMAIN data :
                  DOMAIN data[n] = {"recommendedActions", "preventiveMeasures"}
            /\ Tier1(InitialResult, response_text).result["possibleConditions"] = <<>>
               => \A n \in DOMAIN data :
                     data[n].recommendedActions = <<>> /\ data[n].preventiveMeasures = <<>>

\* tier 2 found two conditions and the record was returned with a key for
\* each of them
C25_Witness ==
    /\ pc = "DONE" /\ doc.style = "nocolon"
    /\ Len(result["possibleConditions"]) = 2
    /\ DOMAIN result["conditionSpecificData"] = {"Flu", "Cold"}

(***************************************************************************)
(* SpecThreads: two calls of parse_gemini_response (utils.py 61-687) under *)
(* way at once, as when two requests are served by two threads.  A call    *)
(* keeps everything it works on in its own frame; the log the calls write  *)
(* to is the one object they share.                                        *)
(***************************************************************************)
\* the frame of a call that is about to start
NewCall(text) ==
    [text |-> text, pc |-> "START", sections |-> <<>>, result |-> <<>>, exc |-> "",
     outcome |-> "running"]

\* one step of the call with the frame c: the steps of Spec, taken on a frame
ParseStep(c) ==
    LET Raising(t, next) ==
            IF t.raised # ""
            THEN [c EXCEPT !.result = t.result, !.exc = IntErrorText(t.raised), !.pc = "RAISED"]
            ELSE [c EXCEPT !.result = t.result, !.pc = next,
                           !.outcome = IF next = "DONE" THEN "returned" ELSE c.outcome]
        Reading(r, next) == [c EXCEPT !.result = r, !.pc = next]
    IN  CASE c.pc = "START" ->
                IF c.text = ""
                THEN [c EXCEPT !.result = EmptyResponseRecord, !.pc = "DONE",
                               !.outcome = "returned"]
                ELSE [c EXCEPT !.result = InitialResult, !.pc = "SPLIT_SECTIONS"]
          [] c.pc = "SPLIT_SECTIONS" ->
                [c EXCEPT !.sections = SplitSections(c.text, 1, <<>>),
                          !.pc = "EXTRACT_CONDITIONS_TIER1"]
          [] c.pc = "EXTRACT_CONDITIONS_TIER1" ->
                Raising(Tier1(c.result, c.text), "EXTRACT_CONDITIONS_TIER2")
          [] c.pc = "EXTRACT_CONDITIONS_TIER2" ->
                Raising(Tier2(c.result, c.sections), "EXTRACT_CONDITIONS_TIER3")
          [] c.pc = "EXTRACT_CONDITIONS_TIER3" ->
                Raising(Tier3(c.result, c.sections, c.text), "FILL_DEFAULTS")
          [] c.pc = "FILL_DEFAULTS" ->
                Reading(ensure_comprehensive_analysis(c.result), "EXTRACT_SECTION_FIELDS")
          [] c.pc = "EXTRACT_SECTION_FIELDS" ->
                Reading(SectionFields(c.result, c.sections), "EXTRACT_MEALS")
          [] c.pc = "EXTRACT_MEALS" ->
                Reading(Meals(c.result, c.sections), "EXTRACT_LIST_SECTIONS")
          [] c.pc = "EXTRACT_LIST_SECTIONS" ->
                Reading(ListSections(c.result, c.sections), "EXTRACT_AYURVEDIC")
          [] c.pc = "EXTRACT_AYURVEDIC" ->
                Reading(Ayurvedic(c.result, c.sections), "EXTRACT_DOS_DONTS")
          [] c.pc = "EXTRACT_DOS_DONTS" ->
                Reading(DosDonts(c.result, c.sections), "EXTRACT_REPORTS")
          [] c.pc = "EXTRACT_REPORTS" ->
                Reading(Reports(c.result, c.sections), "EXTRACT_HEALTH_SCORE")
          [] c.pc = "EXTRACT_HEALTH_SCORE" ->
                Raising(HealthScore(c.result, c.sections), "DONE")
          [] c.pc = "RAISED" ->
                [c EXCEPT !.result = ErrorRecord(c.exc), !.pc = "PARSE_FAILED",
                          !.outcome = "returned"]

RECURSIVE RunCall(_)
\* the frame a call ends with when it runs alone
RunCall(c) == IF c.outcome # "running" THEN c ELSE RunCall(ParseStep(c))

\* the record a call on its own returns
parse_gemini_response(text) == RunCall(NewCall(text)).result

\* the responses of the concurrent calls: empty, conditions with sub-lists
\* and a section of items, one condition with an urgency, a response read by
\* the second tier, one read by the third, and one that makes int() raise
ThreadTexts ==
    {Render(d) : d \in
        {x \in Docs :
            \/ x.style = "wellformed" /\ x.n = 0 /\ x.extra = [kind |-> "fixed", what |-> "none", body |-> ""]
            \/ /\ x.style = "wellformed" /\ x.n = 2 /\ x.sub
               /\ x.extra = [kind |-> "list", what |-> "dos", body |-> "items"]
            \/ x.style = "wellformed" /\ x.n = 1 /\ x.extra.kind = "urgency" /\ x.extra.what = "low"
            \/ x.style \in {"nocolon", "headings", "digits1"} /\ x.extra.what = "none"}}

\* what thread i would work on if sections were a module-level variable,
\* the one the first call set up
Frame_shared(i) == [calls[i] EXCEPT !.sections = calls[1].sections]

\* the frame thread i works on
Frame(i) == calls[i]

InitThreads ==
    /\ \E a \in ThreadTexts, b \in ThreadTexts : calls = <<NewCall(a), NewCall(b)>>
    /\ log_records = 0
    /\ NoListCall /\ NoEnsureCall /\ NoParseCall /\ NoHandlerCall /\ NoCleanCall /\ NoServiceCalls

\* a thread takes the next step of its call and writes to the log
ThreadStep ==
    \E i \in DOMAIN calls :
        /\ calls[i].outcome = "running"
        /\ calls' = [calls EXCEPT ![i] = ParseStep(Frame(i))]
        /\ log_records' = log_records + 1
        /\ UNCHANGED <<listVars, ensureVars, parseVars, handlerVars, cleanVars, serviceVars>>

NextThreads == ThreadStep

SpecThreads == InitThreads /\ [][NextThreads]_vars

MaxSymptoms == 2

\* the symptoms a request carries: a dict may lack a field, a severity is a
\* string (a number, too large a number, a word)
SymptomPool ==
    {[name |-> "Fever", severity |-> "5", duration |-> "2 days"],
     [name |-> "Cough", severity |-> "high", duration |-> "1 week"],
     [name |-> "Fever", severity |-> "11", duration |-> "2 days"],
     [severity |-> "5", duration |-> "2 days"],
     [name |-> "Rash", severity |-> "3"]}

\* the requests: whether the body is JSON and holds data, the bearer token,
\* the symptoms, and whether GEMINI_API_KEY is configured (app.py 98-112)
Requests ==
    [body : {"notjson", "empty", "data"},
     token : {"none", "invalid", "valid"},
     symptoms : UNION {[1..n -> SymptomPool] : n \in 0..MaxSymptoms},
     api_key : BOOLEAN]

\* what model.generate_content(prompt) and response.text give (app.py
\* 412-422): a text, or an exception with its message
GeneratorOutcomes ==
    {[kind |-> "text", text |-> Render(d)] :
        d \in {x \in Docs :
                 /\ x.extra.kind = "fixed" /\ x.extra.what \in {"none", "longscore"}
                 /\ x.style \in {"wellformed", "headings", "nocolon"}
                 /\ x.n <= 1 /\ ~x.sub}}
    \cup {[kind |-> "raised", message |-> msg] :
            msg \in {"429 You exceeded your current quota", "429 Too Many Requests",
                     "500 An internal error has occurred"}}

\* the loop of app.py 187-193 followed by validate_symptoms (utils.py
\* 845-887): a severity string is replaced by int(severity), by 5 when int()
\* refuses it; the severities of SymptomPool are digit strings or words
validate_symptoms(symptoms) ==
    LET Severity(sv) ==
            IF sv # "" /\ SkipDigits(sv, 1) = Len(sv) + 1 /\ ~IntRaises(sv) THEN IntOf(sv) ELSE 5
        Message(i) ==
            LET sym == symptoms[i]
                named == "Symptom '" \o sym.name \o "'"
            IN  IF "name" \notin DOMAIN sym
                THEN "Symptom at index " \o ToString(i - 1) \o " missing 'name' field"
                ELSE IF sym.name = ""
                THEN "Symptom at index " \o ToString(i - 1) \o " has empty 'name' field"
                ELSE IF "severity" \notin DOMAIN sym THEN named \o " missing 'severity' field"
                ELSE IF Severity(sym.severity) \notin 1..10
                THEN named \o " has invalid severity (must be 1-10)"
                ELSE IF "duration" \notin DOMAIN sym THEN named \o " missing 'duration' field"
                ELSE IF sym.duration = "" THEN named \o " has invalid duration"
                ELSE ""
        bad == {i \in 1..Len(symptoms) : Message(i) # ""}
    IN  IF symptoms = <<>> THEN [valid |-> FALSE, message |-> "At least one symptom is required"]
        ELSE IF bad # {} THEN [valid |-> FALSE, message |-> Message(MinOf(bad))]
        ELSE [valid |-> TRUE, message |-> ""]

InitHandler ==
    /\ request \in Requests
    /\ handler_pc = "validate_request_data"
    /\ generated = <<>>
    /\ response = <<>>
    /\ NoListCall /\ NoEnsureCall /\ NoParseCall /\ NoCleanCall /\ NoThreadCalls /\ NoServiceCalls

\* middleware.py 45-55
ValidateRequestData ==
    /\ handler_pc = "validate_request_data"
    /\ IF request.body = "notjson"
       THEN /\ response' = [status |-> 400,
                            body |-> [error |-> "Content-Type must be application/json"]]
            /\ handler_pc' = "done"
       ELSE IF request.body = "empty"
       THEN /\ response' = [status |-> 400, body |-> [error |-> "No data provided"]]
            /\ handler_pc' = "done"
       ELSE /\ handler_pc' = "require_auth"
            /\ UNCHANGED response
    /\ UNCHANGED <<request, generated, listVars, ensureVars, parseVars, cleanVars, threadVars, serviceVars>>

\* auth.py 122-140
RequireAuth ==
    /\ handler_pc = "require_auth"
    /\ IF request.token = "none"
       THEN /\ response' = [status |-> 401, body |-> [error |-> "Authorization token required"]]
            /\ handler_pc' = "done"
       ELSE IF request.token = "invalid"
       THEN /\ response' = [status |-> 401, body |-> [error |-> "Invalid or expired token"]]
            /\ handler_pc' = "done"
       ELSE /\ handler_pc' = "analyze_symptoms"
            /\ UNCHANGED response
    /\ UNCHANGED <<request, generated, listVars, ensureVars, parseVars, cleanVars, threadVars, serviceVars>>

\* app.py 163-209: the symptoms are validated and the API key is looked for
AnalyzeSymptoms ==
    /\ handler_pc = "analyze_symptoms"
    /\ IF ~validate_symptoms(request.symptoms).valid
       THEN /\ response' = [status |-> 400,
                            body |-> [error |-> validate_symptoms(request.symptoms).message]]
            /\ handler_pc' = "done"
       ELSE IF ~request.api_key
       THEN /\ response' = [status |-> 500,
                            body |-> [error |-> "API key not configured",
                                      recommendation |-> "Please check server configuration"]]
            /\ handler_pc' = "done"
       ELSE /\ handler_pc' = "generate_content"
            /\ UNCHANGED response
    /\ UNCHANGED <<request, generated, listVars, ensureVars, parseVars, cleanVars, threadVars, serviceVars>>

\* app.py 411-425: the generator is called; with its text
\* parse_gemini_response is entered, its exception goes to the except clause
GenerateContent ==
    /\ handler_pc = "generate_content"
    /\ \E g \in GeneratorOutcomes :
          /\ generated' = g
          /\ IF g.kind = "text"
             THEN /\ response_text' = g.text
                  /\ pc' = "START"
                  /\ outcome' = "running"
                  /\ handler_pc' = "parse_gemini_response"
             ELSE /\ handler_pc' = "api_error"
                  /\ UNCHANGED <<response_text, pc, outcome>>
    /\ UNCHANGED <<request, response, sections, result, exc, doc, listVars, ensureVars, cleanVars, threadVars, serviceVars>>

\* app.py 425-430: return jsonify(result)
ReturnResult ==
    /\ handler_pc = "parse_gemini_response"
    /\ outcome = "returned"
    /\ response' = [status |-> 200, body |-> result]
    /\ handler_pc' = "done"
    /\ UNCHANGED <<request, generated, listVars, ensureVars, parseVars, cleanVars, threadVars, serviceVars>>

\* app.py 430-495: the record returned when the generator call raised; message
\* is str(api_error)
ApiErrorRecord(message) ==
    LET consultation ==
                [name |->
                    "Ayurvedic Consultation",
                 description |->
                    "A qualified Ayurvedic practitioner would be able to provide "
                      \o "personalized recommendations based on your doshas and "
                      \o "current health condition. Due to API limitations, specific "
                      \o "Ayurvedic recommendations cannot be provided at this time.",
                 importance |->
                    "Ayurvedic medicine is highly personalized and should be "
                      \o "prescribed by trained practitioners who can analyze your "
                      \o "specific constitution and imbalances.",
                 benefits |->
                    "Consulting with an Ayurvedic practitioner offers numerous "
                      \o "benefits including a personalized treatment approach based "
                      \o "on your unique constitution (prakriti), a holistic "
                      \o "assessment that considers not just physical symptoms but "
                      \o "your mental and emotional wellbeing, and access to safe, "
                      \o "time-tested herbal formulations that can complement "
                      \o "conventional medicine. Additionally, Ayurvedic treatments "
                      \o "often focus on lifestyle modifications and dietary "
                      \o "recommendations that address the root cause of your "
                      \o "condition rather than just managing symptoms."]
    IN  IF Contains(message, "429") /\ Contains(Lower(message), "quota")
        THEN    [possibleConditions |-> <<[name |-> "API Quota Exceeded", probability |-> 100, description |-> "The Google Gemini API quota has been exhausted. Please try again later or update your API key.", category |-> "error"]>>,
                 recommendation |-> "The system is currently experiencing high demand. Please try again later or contact support for assistance.",
                 urgency |-> "medium",
                 followUpActions |-> <<"Try again later", "Contact support", "Consider updating the API key">>,
                 riskFactors |-> <<"Unable to analyze symptoms due to API limitations">>,
                 mealRecommendations |-> [breakfast |-> <<>>, lunch |-> <<>>, dinner |-> <<>>],
                 exercisePlan |-> <<>>,
                 diseases |-> <<>>,
                 preventiveMeasures |-> <<"Consider using the offline symptom checker as an alternative">>,
                 ayurvedicMedication |-> [recommendations |-> <<consultation>>],
                 dos |-> <<"Contact healthcare provider for urgent concerns">>,
                 donts |-> <<"Don't rely solely on automated analysis">>]
        ELSE    [possibleConditions |-> <<[name |-> "API Error", probability |-> 100, description |-> "Unable to analyze symptoms: " \o message, category |-> "error"]>>,
                 recommendation |-> "Please try again later or consult a healthcare professional directly.",
                 urgency |-> "medium",
                 followUpActions |-> <<"Try again later", "Consult a healthcare professional">>,
                 riskFactors |-> <<"Unable to analyze symptoms properly">>,
                 mealRecommendations |-> [breakfast |-> <<>>, lunch |-> <<>>, dinner |-> <<>>],
                 exercisePlan |-> <<>>,
                 diseases |-> <<>>,
                 preventiveMeasures |-> <<"Consult a healthcare professional">>,
                 ayurvedicMedication |-> [recommendations |-> <<consultation>>],
                 dos |-> <<"Consult a healthcare professional">>,
                 donts |-> <<"Don't rely solely on automated analysis">>]

\* app.py 430-495: `except Exception as api_error`
ApiError ==
    /\ handler_pc = "api_error"
    /\ response' = [status |-> 200, body |-> ApiErrorRecord(generated.message)]
    /\ handler_pc' = "done"
    /\ UNCHANGED <<request, generated, listVars, ensureVars, parseVars, cleanVars, threadVars, serviceVars>>

NextHandler ==
    \/ ValidateRequestData
    \/ RequireAuth
    \/ AnalyzeSymptoms
    \/ GenerateContent
    \/ Next
    \/ ReturnResult
    \/ ApiError

SpecHandler == InitHandler /\ [][NextHandler]_vars

\* C6: when the generator call or the parse failed in the handler, the
\* response has status 200 and its body holds every field of the
\* AnalysisRecord, the note of the meal recommendations included.
C6_FailureRecordComplete ==
    (/\ handler_pc = "done"
     /\ \/ pc = "PARSE_FAILED"
        \/ generated # <<>> /\ generated.kind = "raised") =>
        /\ response.status = 200
        /\ DOMAIN response.body = AnalysisFields
        /\ "note" \in DOMAIN response.body["mealRecommendations"]


(***************************************************************************)
(* The rate limiter of middleware.py.  SpecRate: calls of                  *)
(* rate_limiter.is_rate_limited made one after the other, each with the    *)
(* default limit and window, scaled down.                                  *)
(***************************************************************************)
\* limit and window of is_rate_limited (100 calls, 60 seconds in the source)
RateLimit == 2

RateWindow == 3

\* the clock stops here
MaxClock == 5

\* the number of calls made one after the other
MaxRateCalls == 5

\* request.remote_addr of the clients
ClientIPs == {"10.0.0.1", "10.0.0.2"}

\* a recorded time that nothing removes
Recent_forever(req_time, current_time) == TRUE

\* `current_time - req_time < window` (middleware.py 16)
Recent(req_time, current_time) == current_time - req_time < RateWindow

\* self.requests[ip] of a defaultdict(list), read without adding the key
RecordedTimes(ip) == IF ip \in DOMAIN requests THEN requests[ip] ELSE <<>>

\* [req_time for req_time in self.requests[ip] if current_time - req_time < window]
Pruned(times, current_time) ==
    LET Keep(req_time) == Recent(req_time, current_time)
    IN  SelectSeq(times, Keep)

\* self.requests[ip] = times
Store(ip, times) ==
    [q \in DOMAIN requests \cup {ip} |-> IF q = ip THEN times ELSE requests[q]]

\* the process after its modules were loaded: no request was served yet,
\* the rate limiter, the tracker and the key cache are empty
InitServices ==
    /\ NoListCall /\ NoEnsureCall /\ NoParseCall /\ NoHandlerCall /\ NoCleanCall /\ NoThreadCalls
    /\ NoServiceCalls

\* time passes
Tick ==
    /\ clock < MaxClock
    /\ clock' = clock + 1
    /\ UNCHANGED <<requests, rate_calls, anonymous_quick_analysis_tracker, quick_calls, report_pc, api_key, retry_count, attempts, report_analysis, _jwks_cache, jwks_endpoint, jwks_fetches, auth_log, listVars, ensureVars, parseVars, handlerVars, cleanVars, threadVars>>

\* middleware.py 12-24: one whole call of is_rate_limited(ip)
IsRateLimited ==
    /\ Len(rate_calls) < MaxRateCalls
    /\ \E ip \in ClientIPs :
          \E kept \in {Pruned(RecordedTimes(ip), clock)} :
              /\ requests' = Store(ip, IF Len(kept) >= RateLimit THEN kept
                                       ELSE Append(kept, clock))
              /\ rate_calls' = Append(rate_calls,
                                      [ip |-> ip, pc |-> "DONE", current_time |-> clock,
                                       limited |-> Len(kept) >= RateLimit])
    /\ UNCHANGED <<clock, anonymous_quick_analysis_tracker, quick_calls, report_pc, api_key, retry_count, attempts, report_analysis, _jwks_cache, jwks_endpoint, jwks_fetches, auth_log, listVars, ensureVars, parseVars, handlerVars, cleanVars, threadVars>>

NextRate ==
    \/ Tick
    \/ IsRateLimited

SpecRate == InitServices /\ [][NextRate]_vars

\* the calls that returned False: the accepted ones
Accepted == {i \in DOMAIN rate_calls : rate_calls[i].pc = "DONE" /\ ~rate_calls[i].limited}

\* no more than RateLimit accepted calls of an address within a window
WithinLimit ==
    \A i \in Accepted :
        Cardinality({j \in Accepted :
                        /\ rate_calls[j].ip = rate_calls[i].ip
                        /\ rate_calls[j].current_time >= rate_calls[i].current_time
                        /\ rate_calls[j].current_time - rate_calls[i].current_time < RateWindow})
          <= RateLimit

\* C26: of calls made one after the other, a call for an address returns
\* False and records the current time exactly when fewer than RateLimit
\* recorded times of the address lie within the last RateWindow seconds, and
\* otherwise returns True and records no time; no more than RateLimit calls
\* of an address are accepted within a window, and a call leaves the times
\* of every other address as they are.
C26_SlidingWindow ==
    /\ [][Len(rate_calls') = Len(rate_calls) + 1 =>
            LET c == rate_calls'[Len(rate_calls')]
                old == RecordedTimes(c.ip)
                within == {k \in 1..Len(old) : clock - old[k] < RateWindow}
                Count(times, x) == Cardinality({k \in 1..Len(times) : times[k] = x})
            IN  /\ c.limited <=> Cardinality(within) >= RateLimit
                /\ ~c.limited =>
                      /\ Len(requests'[c.ip]) = Cardinality(within) + 1
                      /\ requests'[c.ip][Len(requests'[c.ip])] = clock
                /\ c.limited =>
                      \A x \in 0..MaxClock : Count(requests'[c.ip], x) <= Count(old, x)
                /\ \A q \in DOMAIN requests \ {c.ip} : requests'[q] = requests[q]]_vars
    /\ []WithinLimit

\* an address was turned away while the other one was accepted, and was
\* accepted again once its window had passed
C26_Witness ==
    \E i, j, k \in DOMAIN rate_calls :
        /\ i < j /\ j < k
        /\ rate_calls[i].ip = rate_calls[j].ip /\ rate_calls[j].ip = rate_calls[k].ip
        /\ ~rate_calls[i].limited /\ rate_calls[j].limited /\ ~rate_calls[k].limited
        /\ \E o \in DOMAIN rate_calls : rate_calls[o].ip # rate_calls[i].ip /\ ~rate_calls[o].limited

(***************************************************************************)
(* SpecRace: calls of is_rate_limited under way at once, as when the       *)
(* requests are served by threads.  The function takes no lock; a call     *)
(* goes through its statements one at a time and other calls may run       *)
(* between any two of them.                                                *)
(***************************************************************************)
\* the number of calls under way at once
RateThreads == 3

\* a call starts; line 13: current_time = time.time()
ReadCurrentTime ==
    /\ Len(rate_calls) < RateThreads
    /\ \E ip \in ClientIPs :
          rate_calls' = Append(rate_calls,
                               [ip |-> ip, pc |-> "CLEAN", current_time |-> clock,
                                limited |-> FALSE])
    /\ UNCHANGED <<requests, clock, anonymous_quick_analysis_tracker, quick_calls, report_pc, api_key, retry_count, attempts, report_analysis, _jwks_cache, jwks_endpoint, jwks_fetches, auth_log, listVars, ensureVars, parseVars, handlerVars, cleanVars, threadVars>>

\* lines 15-16: the list of the address is replaced by its recent times
CleanOldRequests ==
    /\ \E i \in DOMAIN rate_calls :
          /\ rate_calls[i].pc = "CLEAN"
          /\ requests' = Store(rate_calls[i].ip,
                               Pruned(RecordedTimes(rate_calls[i].ip), rate_calls[i].current_time))
          /\ rate_calls' = [rate_calls EXCEPT ![i].pc = "CHECK"]
    /\ UNCHANGED <<clock, anonymous_quick_analysis_tracker, quick_calls, report_pc, api_key, retry_count, attempts, report_analysis, _jwks_cache, jwks_endpoint, jwks_fetches, auth_log, listVars, ensureVars, parseVars, handlerVars, cleanVars, threadVars>>

\* lines 19-20: `if len(self.requests[ip]) >= limit: return True`
CheckRateLimit ==
    /\ \E i \in DOMAIN rate_calls :
          /\ rate_calls[i].pc = "CHECK"
          /\ requests' = Store(rate_calls[i].ip, RecordedTimes(rate_calls[i].ip))
          /\ rate_calls' =
                IF Len(RecordedTimes(rate_calls[i].ip)) >= RateLimit
                THEN [rate_calls EXCEPT ![i].limited = TRUE, ![i].pc = "DONE"]
                ELSE [rate_calls EXCEPT ![i].pc = "ADD"]
    /\ UNCHANGED <<clock, anonymous_quick_analysis_tracker, quick_calls, report_pc, api_key, retry_count, attempts, report_analysis, _jwks_cache, jwks_endpoint, jwks_fetches, auth_log, listVars, ensureVars, parseVars, handlerVars, cleanVars, threadVars>>

\* lines 23-24: self.requests[ip].append(current_time); return False
AddCurrentRequest ==
    /\ \E i \in DOMAIN rate_calls :
          /\ rate_calls[i].pc = "ADD"
          /\ requests' = Store(rate_calls[i].ip,
                               Append(RecordedTimes(rate_calls[i].ip), rate_calls[i].current_time))
          /\ rate_calls' = [rate_calls EXCEPT ![i].pc = "DONE"]
    /\ UNCHANGED <<clock, anonymous_quick_analysis_tracker, quick_calls, report_pc, api_key, retry_count, attempts, report_analysis, _jwks_cache, jwks_endpoint, jwks_fetches, auth_log, listVars, ensureVars, parseVars, handlerVars, cleanVars, threadVars>>

NextRace ==
    \/ Tick
    \/ ReadCurrentTime
    \/ CleanOldRequests
    \/ CheckRateLimit
    \/ AddCurrentRequest

SpecRace == InitServices /\ [][NextRace]_vars

\* C27: the rate-limit counter is synchronized.  Whatever the order in which
\* the statements of calls under way at once are run, no more than RateLimit
\* calls of an address are accepted within a window, and the time of every
\* accepted call stays in the list of its address while it is recent.
C27_Synchronized ==
    /\ WithinLimit
    /\ \A i \in Accepted :
          clock - rate_calls[i].current_time < RateWindow
          => \E k \in 1..Len(RecordedTimes(rate_calls[i].ip)) :
                RecordedTimes(rate_calls[i].ip)[k] = rate_calls[i].current_time

(***************************************************************************)
(* SpecAnon: requests of /api/quick-analyze under way at once.  The        *)
(* tracker of anonymous use is a module-level dict read and written        *)
(* without a lock; other requests may run between the membership test and  *)
(* the assignment.                                                         *)
(***************************************************************************)
\* the number of requests under way at once
QuickThreads == 3

\* get_current_user_id(): None for a request without a valid token
UserIds == {"None", "user_1"}

\* app.py 135-139
has_used_quick_analysis(ip) == ip \in DOMAIN anonymous_quick_analysis_tracker

\* app.py 511-518: a request arrives; is_first_request = True, and only a
\* request without a user goes on to the tracker
QuickAnalyze ==
    /\ Len(quick_calls) < QuickThreads
    /\ \E ip \in ClientIPs, user_id \in UserIds :
          quick_calls' = Append(quick_calls,
                                [ip |-> ip, user_id |-> user_id, is_first_request |-> TRUE,
                                 pc |-> IF user_id = "None" THEN "CHECK" ELSE "DONE"])
    /\ UNCHANGED <<requests, clock, rate_calls, anonymous_quick_analysis_tracker, report_pc, api_key, retry_count, attempts, report_analysis, _jwks_cache, jwks_endpoint, jwks_fetches, auth_log, listVars, ensureVars, parseVars, handlerVars, cleanVars, threadVars>>

\* app.py 519-520: is_first_request = not has_used_quick_analysis(client_ip)
CheckFirstRequest ==
    /\ \E i \in DOMAIN quick_calls :
          /\ quick_calls[i].pc = "CHECK"
          /\ quick_calls' =
                [quick_calls EXCEPT
                    ![i].is_first_request = ~has_used_quick_analysis(quick_calls[i].ip),
                    ![i].pc = IF has_used_quick_analysis(quick_calls[i].ip) THEN "DONE"
                              ELSE "MARK"]
    /\ UNCHANGED <<requests, clock, rate_calls, anonymous_quick_analysis_tracker, report_pc, api_key, retry_count, attempts, report_analysis, _jwks_cache, jwks_endpoint, jwks_fetches, auth_log, listVars, ensureVars, parseVars, handlerVars, cleanVars, threadVars>>

\* app.py 522: anonymous_quick_analysis_tracker[client_ip] = time.time()
MarkFirstRequest ==
    /\ \E i \in DOMAIN quick_calls :
          /\ quick_calls[i].pc = "MARK"
          /\ anonymous_quick_analysis_tracker' =
                [q \in DOMAIN anonymous_quick_analysis_tracker \cup {quick_calls[i].ip} |->
                    IF q = quick_calls[i].ip THEN clock
                    ELSE anonymous_quick_analysis_tracker[q]]
          /\ quick_calls' = [quick_calls EXCEPT ![i].pc = "DONE"]
    /\ UNCHANGED <<requests, clock, rate_calls, report_pc, api_key, retry_count, attempts, report_analysis, _jwks_cache, jwks_endpoint, jwks_fetches, auth_log, listVars, ensureVars, parseVars, handlerVars, cleanVars, threadVars>>

NextAnon ==
    \/ Tick
    \/ QuickAnalyze
    \/ CheckFirstRequest
    \/ MarkFirstRequest

SpecAnon == InitServices /\ [][NextAnon]_vars

\* the anonymous requests of an address that were told it was their first
AnonymousFirst(ip) ==
    {i \in DOMAIN quick_calls :
        /\ quick_calls[i].ip = ip
        /\ quick_calls[i].user_id = "None"
        /\ quick_calls[i].pc \in {"MARK", "DONE"}
        /\ quick_calls[i].is_first_request}

\* C28: whatever the order in which the statements of requests under way at
\* once are run, at most one anonymous request of an address observes
\* is_anonymous_first_request = true; an address in the tracker is never
\* removed and an anonymous request that tests the tracker after that
\* observes false; a request with a user observes true and adds nothing to
\* the tracker.
C28_OneFirstRequestPerIP ==
    /\ [](\A ip \in ClientIPs : Cardinality(AnonymousFirst(ip)) <= 1)
    /\ [](\A i \in DOMAIN quick_calls :
             quick_calls[i].user_id # "None"
             => quick_calls[i].pc = "DONE" /\ quick_calls[i].is_first_request)
    /\ [][/\ DOMAIN anonymous_quick_analysis_tracker
               \subseteq DOMAIN anonymous_quick_analysis_tracker'
          /\ \A i \in DOMAIN quick_calls :
                /\ quick_calls[i].pc = "CHECK" /\ quick_calls'[i].pc # "CHECK"
                /\ has_used_quick_analysis(quick_calls[i].ip)
                => ~quick_calls'[i].is_first_request
          /\ \A ip \in DOMAIN anonymous_quick_analysis_tracker' \ DOMAIN anonymous_quick_analysis_tracker :
                \E i \in DOMAIN quick_calls :
                    /\ quick_calls[i].ip = ip /\ quick_calls[i].user_id = "None"
                    /\ quick_calls[i].pc = "MARK"]_vars

(***************************************************************************)
(* SpecRetry: calls of analyze_medical_reports_with_gemini (app.py), one   *)
(* after the other.  The generator is the environment: a call of           *)
(* generate_content raises or returns a response, and what it returns is   *)
(* given here already read as JSON or as text.                             *)
(***************************************************************************)
\* the number of calls of the function
MaxReportCalls == 2

\* app.py 1183
max_retries == 2

\* what one call of model.generate_content does: it raises, or returns a
\* response without text, with a JSON object, with a JSON list, or with
\* text that is no JSON.  The objects are parts of one report whose meals
\* lack a note and a lunch and whose ayurvedic part lacks its
\* recommendations; of a text that is no JSON the value is what
\* extract_structured_data_from_text finds, keyFindings always among it
\* (app.py 1410-1420).
ReportGeneratorOutcomes ==
    LET ModelReport ==
            [recommendation |-> "Repeat the CBC in two weeks.",
             followUpActions |-> <<"Repeat CBC">>,
             riskFactors |-> <<"Low hemoglobin">>,
             mealRecommendations |->
                [breakfast |-> <<"Oats">>, lunch |-> <<>>, dinner |-> <<"Soup">>],
             exercisePlan |-> <<"Walk">>,
             preventiveMeasures |-> <<"Iron-rich diet">>,
             dos |-> <<"Rest">>,
             donts |-> <<"Skip meals">>,
             ayurvedicMedication |-> [note |-> "none"],
             possibleConditions |-> <<>>,
             healthScore |-> 7,
             keyFindings |-> <<"Hemoglobin 10.1 g/dL">>,
             summary |-> "Mild anemia."]
        ReportKeySets ==
            {{}, {"recommendation", "healthScore"},
             {"mealRecommendations", "ayurvedicMedication", "keyFindings"}, DOMAIN ModelReport}
        ExtractedKeySets == {{"keyFindings"}, {"recommendation", "keyFindings", "summary"}}
        Restrict(S) == [k \in S |-> ModelReport[k]]
    IN  {[kind |-> "raise", error |-> e, value |-> <<>>] :
            e \in {"503 Service Unavailable", "Deadline Exceeded"}}
        \cup {[kind |-> "no_text", error |-> "", value |-> <<>>],
              [kind |-> "json_list", error |-> "", value |-> <<>>]}
        \cup {[kind |-> "json", error |-> "", value |-> Restrict(S)] : S \in ReportKeySets}
        \cup {[kind |-> "text", error |-> "", value |-> Restrict(S)] : S \in ExtractedKeySets}

\* app.py 1248-1303
create_fallback_response(error_message) ==
    [recommendation |-> "We encountered an issue analyzing your reports. " \o error_message
                        \o " Please consult with a healthcare provider for proper medical advice.",
     followUpActions |->
        <<"Consult with a healthcare provider to review your medical reports",
          "Try uploading different report formats (PDF recommended) or clearer images",
          "Consider providing additional context about your symptoms and reports",
          "Schedule a follow-up appointment to discuss your test results in detail">>,
     riskFactors |->
        <<"Unable to determine specific risk factors from the provided reports",
          "Delayed diagnosis or treatment due to incomplete analysis",
          "Potential oversight of important medical findings">>,
     mealRecommendations |->
        [breakfast |-> <<"Balanced meal with protein, whole grains, and fruits">>,
         lunch |-> <<"Varied diet with vegetables, lean protein, and complex carbohydrates">>,
         dinner |-> <<"Light meal with vegetables, protein, and minimal carbohydrates">>,
         note |-> "These are general recommendations. Please consult a nutritionist for personalized advice based on your specific test results."],
     exercisePlan |->
        <<"Regular moderate physical activity appropriate for your condition",
          "Consult with a healthcare provider before starting any exercise regimen",
          "Consider activities that don't exacerbate your symptoms">>,
     preventiveMeasures |->
        <<"Regular health check-ups with comprehensive blood work",
          "Follow your doctor's advice regarding diagnostic tests",
          "Keep a record of all your symptoms and test results",
          "Maintain a healthy lifestyle with balanced nutrition">>,
     dos |->
        <<"Maintain a healthy lifestyle with balanced nutrition and regular exercise",
          "Keep all your medical reports organized and accessible",
          "Continue taking prescribed medications as directed by your doctor",
          "Follow up with healthcare providers for proper interpretation of test results">>,
     donts |->
        <<"Avoid self-medication based on incomplete analysis",
          "Don't ignore persistent symptoms even if analysis was inconclusive",
          "Avoid delaying professional medical consultation",
          "Don't rely solely on automated analysis for medical decisions">>,
     ayurvedicMedication |-> [recommendations |-> <<>>],
     possibleConditions |-> <<>>,
     healthScore |-> 5,
     keyFindings |->
        <<"Your report appears to contain medical data that requires professional interpretation",
          "The system identified the presence of medical reports but couldn't extract specific values",
          "For blood test/CBC reports: These typically measure blood cell counts, hemoglobin levels, and other important markers",
          "For imaging reports: These may contain important structural or functional information relevant to your symptoms",
          "Professional medical review is recommended to fully interpret these results in context with your symptoms">>,
     summary |-> "We encountered technical difficulties analyzing your specific medical reports. While the system has identified the types of reports you've uploaded, a healthcare professional should review these documents for accurate interpretation. The reports you've provided contain valuable medical information that, when properly analyzed, can help guide your diagnosis and treatment. Please consult with a qualified healthcare provider who can interpret your test results in the context of your medical history and current symptoms."]

\* app.py 1308-1328: the defaults of ensure_complete_response
ReportDefaults ==
    [recommendation |-> "Please consult with a healthcare provider for a proper medical recommendation.",
     followUpActions |-> <<"Consult with a healthcare provider">>,
     riskFactors |-> <<"No specific risk factors identified">>,
     mealRecommendations |->
        [breakfast |-> <<"Balanced meal with protein, whole grains, and fruits">>,
         lunch |-> <<"Varied diet with vegetables, lean protein, and complex carbohydrates">>,
         dinner |-> <<"Light meal with vegetables, protein, and minimal carbohydrates">>,
         note |-> "These are general recommendations. Please consult a nutritionist for personalized advice."],
     exercisePlan |-> <<"Moderate physical activity as appropriate">>,
     preventiveMeasures |-> <<"Regular health check-ups">>,
     dos |-> <<"Maintain a healthy lifestyle">>,
     donts |-> <<"Avoid self-medication">>,
     ayurvedicMedication |-> [recommendations |-> <<>>],
     possibleConditions |-> <<>>,
     healthScore |-> 5,
     keyFindings |-> <<"Analysis completed based on provided information">>,
     summary |-> "The uploaded reports were analyzed in context with your symptoms. Please consult a healthcare provider for accurate interpretation."]

\* app.py 1306-1352, for a dict whose values have the types of the defaults
ensure_complete_response(analysis) ==
    LET meals == IF "mealRecommendations" \in DOMAIN analysis
                 THEN analysis.mealRecommendations ELSE ReportDefaults.mealRecommendations
        NoMeal(meal_key) == IF meal_key = "note" THEN meals[meal_key] = ""
                           ELSE meals[meal_key] = <<>>
        ayurvedic == IF "ayurvedicMedication" \in DOMAIN analysis
                     THEN analysis.ayurvedicMedication ELSE ReportDefaults.ayurvedicMedication
    IN  [key \in DOMAIN analysis \cup DOMAIN ReportDefaults |->
            CASE key = "mealRecommendations" ->
                    [meal_key \in DOMAIN meals \cup {"breakfast", "lunch", "dinner", "note"} |->
                        IF meal_key \in {"breakfast", "lunch", "dinner", "note"}
                           /\ (meal_key \notin DOMAIN meals \/ NoMeal(meal_key))
                        THEN ReportDefaults.mealRecommendations[meal_key]
                        ELSE meals[meal_key]]
              [] key = "ayurvedicMedication" ->
                    IF "recommendations" \in DOMAIN ayurvedic THEN ayurvedic
                    ELSE [recommendations |-> <<>>]
              [] OTHER -> IF key \in DOMAIN analysis THEN analysis[key] ELSE ReportDefaults[key]]

\* gives up at the first failure
RetriesExhausted_first(count) == count > 0

\* app.py 1192: `if retry_count > max_retries: raise`
RetriesExhausted(count) == count > max_retries

\* app.py 1200-1239: what the function returns for a response, where
\* last is the last call of the generator
ProcessedResponse(last) ==
    CASE last.kind = "raise" ->
            \* the loop ended without a response
            create_fallback_response("Error processing AI response: cannot access local variable 'response' where it is not associated with a value")
      [] last.kind = "no_text" ->
            create_fallback_response("The AI model returned an empty response. Please try again.")
      [] last.kind = "json_list" ->
            \* analysis[key] = default_value of a list
            create_fallback_response("Error processing AI response: list indices must be integers or slices, not str")
      [] OTHER -> ensure_complete_response(last.value)

\* the calls of the generator of the call under way
CurrentAttempts == IF attempts = <<>> THEN <<>> ELSE attempts[Len(attempts)]

\* app.py 1156-1184: a call starts; GEMINI_API_KEY of the process is set or
\* not, and without it the call returns at once
AnalyzeMedicalReports ==
    /\ report_pc \in {"idle", "DONE"}
    /\ Len(attempts) < MaxReportCalls
    /\ \E key \in IF attempts = <<>> THEN {"", "key-1"} ELSE {api_key} :
          /\ api_key' = key
          /\ report_pc' = IF key = "" THEN "DONE" ELSE "GENERATE"
          /\ report_analysis' = IF key = "" THEN [error |-> "API key not configured"] ELSE <<>>
    /\ retry_count' = 0
    /\ attempts' = Append(attempts, <<>>)
    /\ UNCHANGED <<requests, clock, rate_calls, anonymous_quick_analysis_tracker, quick_calls, _jwks_cache, jwks_endpoint, jwks_fetches, auth_log, listVars, ensureVars, parseVars, handlerVars, cleanVars, threadVars>>

\* app.py 1186-1194: one turn of the loop up to `break`, to time.sleep or
\* to the `raise` that the outer handler (1242-1245) turns into a fallback
GenerateReportContent ==
    /\ report_pc = "GENERATE"
    /\ retry_count <= max_retries
    /\ \E made \in ReportGeneratorOutcomes :
          /\ attempts' = [attempts EXCEPT ![Len(attempts)] = Append(@, made)]
          /\ IF made.kind = "raise"
             THEN /\ retry_count' = retry_count + 1
                  /\ IF RetriesExhausted(retry_count + 1)
                     THEN /\ report_pc' = "DONE"
                          /\ report_analysis' =
                                create_fallback_response("Error calling AI service: " \o made.error)
                     ELSE /\ report_pc' = "SLEEP"
                          /\ UNCHANGED report_analysis
             ELSE /\ report_pc' = "RESPONSE"
                  /\ UNCHANGED <<retry_count, report_analysis>>
    /\ UNCHANGED <<requests, clock, rate_calls, anonymous_quick_analysis_tracker, quick_calls, api_key, _jwks_cache, jwks_endpoint, jwks_fetches, auth_log, listVars, ensureVars, parseVars, handlerVars, cleanVars, threadVars>>

\* app.py 1195 and 1186: time.sleep(2), then the test of the loop
RetrySleep ==
    /\ report_pc = "SLEEP"
    /\ report_pc' = IF retry_count <= max_retries THEN "GENERATE" ELSE "RESPONSE"
    /\ UNCHANGED <<requests, clock, rate_calls, anonymous_quick_analysis_tracker, quick_calls, api_key, retry_count, attempts, report_analysis, _jwks_cache, jwks_endpoint, jwks_fetches, auth_log, listVars, ensureVars, parseVars, handlerVars, cleanVars, threadVars>>

\* app.py 1200-1239: the response is read and completed
ProcessReportResponse ==
    /\ report_pc = "RESPONSE"
    /\ report_analysis' = ProcessedResponse(CurrentAttempts[Len(CurrentAttempts)])
    /\ report_pc' = "DONE"
    /\ UNCHANGED <<requests, clock, rate_calls, anonymous_quick_analysis_tracker, quick_calls, api_key, retry_count, attempts, _jwks_cache, jwks_endpoint, jwks_fetches, auth_log, listVars, ensureVars, parseVars, handlerVars, cleanVars, threadVars>>

NextRetry ==
    \/ AnalyzeMedicalReports
    \/ GenerateReportContent
    \/ RetrySleep
    \/ ProcessReportResponse

\* a call that has started goes on: the generator raises or returns, the
\* sleep ends, the response is processed
SpecRetry ==
    /\ InitServices
    /\ [][NextRetry]_vars
    /\ WF_vars(GenerateReportContent)
    /\ WF_vars(RetrySleep)
    /\ WF_vars(ProcessReportResponse)

\* every call of the generator of the call under way raised
AllAttemptsFailed ==
    \A i \in DOMAIN CurrentAttempts : CurrentAttempts[i].kind = "raise"

MaxAuthCalls == 3

\* the Authorization headers: none, and tokens without a kid, with the kid
\* of the endpoint's key (well signed or not) and with another kid
AuthTokens ==
    {[bearer |-> FALSE, kid |-> "", valid |-> FALSE],
     [bearer |-> TRUE, kid |-> "", valid |-> TRUE],
     [bearer |-> TRUE, kid |-> "kid-1", valid |-> TRUE],
     [bearer |-> TRUE, kid |-> "kid-1", valid |-> FALSE],
     [bearer |-> TRUE, kid |-> "kid-2", valid |-> TRUE]}

\* response.json() of the endpoint, by the kids of its keys
EndpointJwks == [keys |-> {"kid-1"}]

\* a cache that is fetched again by every call
CacheIsNone_always(cache) == TRUE

\* auth.py 35: `if _jwks_cache is None`
CacheIsNone(cache) == cache = <<>>

\* a call of get_jwks is between its test of the cache and its assignment
FetchUnderWay ==
    \E i \in DOMAIN auth_log : auth_log[i].pc \in {"FETCH", "STORE"}

\* the endpoint becomes unreachable, or reachable again
ToggleEndpoint ==
    /\ jwks_endpoint' = IF jwks_endpoint = "up" THEN "down" ELSE "up"
    /\ UNCHANGED <<requests, clock, rate_calls, anonymous_quick_analysis_tracker, quick_calls, report_pc, api_key, retry_count, attempts, report_analysis, _jwks_cache, jwks_fetches, auth_log, listVars, ensureVars, parseVars, handlerVars, cleanVars, threadVars>>

\* auth.py 127-131 and 47-60: a request arrives; without a token it is
\* answered 401, and verify_token returns None for a token without a kid
VerifyToken ==
    /\ Len(auth_log) < MaxAuthCalls
    /\ \E token \in AuthTokens :
          auth_log' = Append(auth_log,
                             [token |-> token,
                              cache_at_start |-> _jwks_cache,
                              quiet_at_start |-> ~FetchUnderWay,
                              fetch_no |-> 0, response |-> <<>>, jwks |-> <<>>,
                              payload |-> "None",
                              status |-> IF token.bearer /\ token.kid # "" THEN 0 ELSE 401,
                              pc |-> IF token.bearer /\ token.kid # "" THEN "JWKS" ELSE "DONE"])
    /\ UNCHANGED <<requests, clock, rate_calls, anonymous_quick_analysis_tracker, quick_calls, report_pc, api_key, retry_count, attempts, report_analysis, _jwks_cache, jwks_endpoint, jwks_fetches, listVars, ensureVars, parseVars, handlerVars, cleanVars, threadVars>>

\* auth.py 63 and 35: get_jwks is called and tests the cache
GetJwks ==
    /\ \E i \in DOMAIN auth_log :
          /\ auth_log[i].pc = "JWKS"
          /\ auth_log' = [auth_log EXCEPT
                             ![i].pc = IF CacheIsNone(_jwks_cache) THEN "FETCH" ELSE "RETURN"]
    /\ UNCHANGED <<requests, clock, rate_calls, anonymous_quick_analysis_tracker, quick_calls, report_pc, api_key, retry_count, attempts, report_analysis, _jwks_cache, jwks_endpoint, jwks_fetches, listVars, ensureVars, parseVars, handlerVars, cleanVars, threadVars>>

\* auth.py 37-38: requests.get and raise_for_status
FetchJwks ==
    /\ \E i \in DOMAIN auth_log :
          /\ auth_log[i].pc = "FETCH"
          /\ auth_log' = [auth_log EXCEPT
                             ![i].fetch_no = jwks_fetches + 1,
                             ![i].response = IF jwks_endpoint = "up" THEN EndpointJwks
                                             ELSE [keys |-> {}],
                             ![i].pc = "STORE"]
    /\ jwks_fetches' = jwks_fetches + 1
    /\ UNCHANGED <<requests, clock, rate_calls, anonymous_quick_analysis_tracker, quick_calls, report_pc, api_key, retry_count, attempts, report_analysis, _jwks_cache, jwks_endpoint, listVars, ensureVars, parseVars, handlerVars, cleanVars, threadVars>>

\* auth.py 39, or 40-42 after a failed fetch: the cache is assigned
StoreJwks ==
    /\ \E i \in DOMAIN auth_log :
          /\ auth_log[i].pc = "STORE"
          /\ _jwks_cache' = auth_log[i].response
          /\ auth_log' = [auth_log EXCEPT ![i].pc = "RETURN"]
    /\ UNCHANGED <<requests, clock, rate_calls, anonymous_quick_analysis_tracker, quick_calls, report_pc, api_key, retry_count, attempts, report_analysis, jwks_endpoint, jwks_fetches, listVars, ensureVars, parseVars, handlerVars, cleanVars, threadVars>>

\* auth.py 43: return _jwks_cache
ReturnJwks ==
    /\ \E i \in DOMAIN auth_log :
          /\ auth_log[i].pc = "RETURN"
          /\ auth_log' = [auth_log EXCEPT ![i].jwks = _jwks_cache, ![i].pc = "FIND"]
    /\ UNCHANGED <<requests, clock, rate_calls, anonymous_quick_analysis_tracker, quick_calls, report_pc, api_key, retry_count, attempts, report_analysis, _jwks_cache, jwks_endpoint, jwks_fetches, listVars, ensureVars, parseVars, handlerVars, cleanVars, threadVars>>

\* auth.py 64-114 and 132-140: the key of the kid is looked up and the
\* token decoded; None is answered 401
DecodeToken ==
    /\ \E i \in DOMAIN auth_log :
          /\ auth_log[i].pc = "FIND"
          /\ \E found \in {auth_log[i].token.kid \in auth_log[i].jwks.keys
                           /\ auth_log[i].token.valid} :
                auth_log' = [auth_log EXCEPT
                                ![i].payload = IF found THEN "user_1" ELSE "None",
                                ![i].status = IF found THEN 200 ELSE 401,
                                ![i].pc = "DONE"]
    /\ UNCHANGED <<requests, clock, rate_calls, anonymous_quick_analysis_tracker, quick_calls, report_pc, api_key, retry_count, attempts, report_analysis, _jwks_cache, jwks_endpoint, jwks_fetches, listVars, ensureVars, parseVars, handlerVars, cleanVars, threadVars>>

NextJwks ==
    \/ ToggleEndpoint
    \/ VerifyToken
    \/ GetJwks
    \/ FetchJwks
    \/ StoreJwks
    \/ ReturnJwks
    \/ DecodeToken

SpecJwks == InitServices /\ [][NextJwks]_vars

\* a call of get_jwks has returned
GetJwksCompleted ==
    \E i \in DOMAIN auth_log : auth_log[i].pc \in {"FIND", "DONE"} /\ auth_log[i].jwks # <<>>

\* the first fetch of the process failed
FirstFetchFailed ==
    \E i \in DOMAIN auth_log : auth_log[i].fetch_no = 1 /\ auth_log[i].response = [keys |-> {}]

\* C30 as stated: once the first get_jwks call has completed, _jwks_cache
\* never changes and no further fetch is made; and when the first fetch
\* failed, a verify_token call that starts once the empty key set is cached
\* returns None and is answered 401.
C30_CacheFixedAfterFirstCall ==
    /\ [][GetJwksCompleted =>
             _jwks_cache' = _jwks_cache /\ jwks_fetches' = jwks_fetches]_vars
    /\ [](\A i \in DOMAIN auth_log :
             /\ FirstFetchFailed
             /\ auth_log[i].pc = "DONE"
             /\ auth_log[i].cache_at_start = [keys |-> {}]
             => auth_log[i].payload = "None" /\ auth_log[i].status = 401)

\* C30, amended: _jwks_cache is assigned only by a call of get_jwks that
\* found it None.  Once it is set and no such call is under way it never
\* changes and no further fetch is made, whatever the endpoint does; and a
\* verify_token call that starts in such a state with the empty key set
\* cached returns None and is answered 401.
C30_CacheFixedOnceQuiet ==
    /\ [][/\ _jwks_cache # <<>> /\ ~FetchUnderWay =>
                _jwks_cache' = _jwks_cache /\ jwks_fetches' = jwks_fetches
          /\ _jwks_cache' # _jwks_cache =>
                \E i \in DOMAIN auth_log :
                    /\ auth_log[i].pc = "STORE" /\ auth_log'[i].pc = "RETURN"
                    /\ _jwks_cache' = auth_log[i].response]_vars
    /\ [](\A i \in DOMAIN auth_log :
             /\ auth_log[i].pc = "DONE"
             /\ auth_log[i].cache_at_start = [keys |-> {}]
             /\ auth_log[i].quiet_at_start
             => auth_log[i].payload = "None" /\ auth_log[i].status = 401)

\* the first fetch failed; a well-signed token with the kid of the
\* endpoint's key, sent later while the endpoint is reachable, was answered
\* 401 without another fetch
C30_Witness ==
    /\ _jwks_cache = [keys |-> {}]
    /\ FirstFetchFailed
    /\ jwks_fetches = 1
    /\ jwks_endpoint = "up"
    /\ \E i \in DOMAIN auth_log :
          /\ auth_log[i].pc = "DONE"
          /\ auth_log[i].token = [bearer |-> TRUE, kid |-> "kid-1", valid |-> TRUE]
          /\ auth_log[i].cache_at_start = [keys |-> {}]
          /\ auth_log[i].quiet_at_start
          /\ auth_log[i].jwks = [keys |-> {}]
          /\ auth_log[i].status = 401

====
